---- MODULE Spec2Model ----
(***************************************************************************)
(* Model of soothe's parallel test-execution engine:                       *)
(*   soothe/test.py        Result, Test.run                                *)
(*   soothe/test_suite.py  TestSuite._run_worker,                          *)
(*                         TestSuite._run_test_suite_in_parallel,          *)
(*                         TestSuite.run                                   *)
(*   soothe/soothe.py      Soothe.run_test_suites, _generate_assets,       *)
(*                         _load_asset_lists, download_assets              *)
(*   soothe/asset_list.py  AssetList.download, _download_worker            *)
(*   soothe/utils.py       download, get_matches_from_list                 *)
(*   soothe/encoder.py     Encoder.check, register_encoder                 *)
(*   soothe/main.py        Main._run_cmd                                   *)
(* The multiprocessing.Pool the engine drives is modelled by what it does  *)
(* to the program: a task queue, `jobs` worker processes, a result queue   *)
(* served by one result-handler thread that runs the callback, and the     *)
(* pool state RUN / CLOSE / TERMINATE.                                     *)
(***************************************************************************)
EXTENDS Integers, Sequences, FiniteSets, TLC

\* ------------------------------------------------------------------ bounds
NumTests == 2        \* largest number of tests handed to the engine
MaxJobs  == 2        \* largest worker count (params.jobs)
MaxRuns  == 2        \* how often JobSpec calls Test.run on the same Test
MaxText  == 3        \* longest scorer text JobSpec draws exhaustively
MaxChecks == 3       \* how many Encoder.check calls CheckSpec makes
NumClasses == 3      \* how many encoder classes RegSpec registers
MaxSecs  == 2        \* longest run and largest --time-threshold, in seconds

\* ------------------------------------------------- EncodeTestResult values
NOT_RUN == "Not Run"
SUCCESS == "Success"
FAIL    == "Fail"
TIMEOUT == "Timeout"
ERROR   == "Error"

EncodeTestResult == {NOT_RUN, SUCCESS, FAIL, TIMEOUT, ERROR}

\* ------------------------------------------------------------ environment
\* What one call of encoder.encode can do: return, raise TimeoutExpired, or
\* raise anything else (missing binary, non-zero exit, I/O failure).
EncodeOutcomes == {"ok", "TimeoutExpired", "CalledProcessError"}

\* Texts the scorer can print, as sequences of characters: "7" stands for a
\* digit, "a" for any other character, ":" for the separator.
ScorerOutputs ==
    { <<"a", ":", "7">>,            \* label:value
      <<"a", ":", "7", ":", "a">>,  \* a second separator after the value
      <<"a">>,                      \* no separator
      <<"a", ":", "a">>,            \* non-numeric value
      <<>> }                        \* only white space, stripped away

\* Every text of at most n characters.
RECURSIVE TextsUpTo(_)
TextsUpTo(n) ==
    IF n = 0 THEN {<<>>}
    ELSE LET shorter == TextsUpTo(n - 1)
         IN  shorter \cup {Append(t, c) : t \in shorter, c \in {"a", "7", ":"}}

\* What one call of run_command_with_output can do:
\*   "ok"       the scorer exits with status 0 and the text is returned;
\*   "nonzero"  the scorer exits with another status: Popen.communicate does
\*              not look at the status, the text is returned all the same;
\*   "OSError"  the subprocess cannot be started, Popen raises;
\*   "hang"     the call never returns: no timeout is passed, so a scorer
\*              that does not exit is waited for, and os.read on the pty
\*              blocks when the scorer has printed nothing.
ScorerOutcomes == {"ok", "nonzero", "OSError", "hang"}

\* The outcomes in which run_command_with_output returns a text.
ScorerReturns(o) == o \in {"ok", "nonzero"}

VARIABLES
    \* ---- inputs of one run
    ntests,        \* len(tests)
    jobs,          \* params.jobs
    fail_fast,     \* params.fail_fast
    keep_files,    \* params.keep_files
    quiet,         \* params.quiet
    \* ---- one Test / Result per job
    pc,            \* position of each job
    result,        \* the job's Result object (in the worker process)
    pending,       \* exception in flight inside Test.run, or "none"
    output,        \* local variable `output` of Test.run: bound or not, its text
    file,          \* does the job's output file exist
    \* ---- the pool
    pool_state,    \* Pool._state
    inqueue,       \* tasks submitted and not yet taken by a worker
    alive,         \* number of live worker processes
    outqueue,      \* Results sent back by workers, not yet handled
    cb_pc,         \* position of the result-handler thread / _callback
    cb_result,     \* argument test_result of the running _callback
    \* ---- the main thread
    main_pc,       \* position in _run_test_suite_in_parallel
    next_i,        \* index of the next test of the submission loop
    test_results,  \* local list test_results
    printed,       \* what print(test_result) has written
    time_set,      \* has self.time been assigned by this run
    num_results,   \* self.num_results
    \* ---- observation of the run (history)
    enc_outcome,   \* what encoder.encode did for each job ("none" before)
    sc_outcome,    \* what the scorer call did for each job ("none" before)
    calls,         \* how often encode and the scorer were invoked per job
    trigger,       \* Results whose callback called pool.terminate()
    late_start,    \* jobs a worker began after pool.terminate() was entered
    completed,     \* jobs in the order their _run_worker returned
    run_no,        \* number of the current Test.run call (JobSpec)
    \* ---- Soothe.run_test_suites and TestSuite.run (SuiteSpec)
    params,        \* RunParams: the name lists given on the command line
    env,           \* what the run finds: vmaf, usable encoders, old output
    s_pc,          \* position in run_test_suites / TestSuite.run
    encoders,      \* local list `encoders` of run_test_suites
    enc_i,         \* index of the encoder the loop is at
    assets,        \* TestSuiteParams.assets
    suite_name,    \* TestSuiteParams.name
    output_dir,    \* TestSuite.params.output_dir, a path
    dirs,          \* directories that exist
    files,         \* output files that exist
    tests,         \* local list `tests` of TestSuite.run
    ran,           \* history: encoder and directory of every engine run
    skipped,       \* history: encoders TestSuite.run has skipped
    \* ---- str(Result) (StrSpec)
    res,           \* the Result that is rendered
    shown,         \* the text str(res) returned, <<>> before the call
    \* ---- Encoder.check and its lru_cache (CheckSpec)
    cache,         \* the entries of the lru_cache, least recently used first
    probes,        \* how often the probe of each encoder instance has run
    tool,          \* would the probe of each encoder succeed now
    check_log,     \* history: the check calls and what they returned
    \* ---- register_encoder and the global list (RegSpec)
    registry,      \* the global list ENCODERS while it is built and used
    cls_name,      \* encoder_name of each encoder class
    registered,    \* history: the classes register_encoder was called with
    r_pc,          \* "import" while the modules load, then "run"
    listed,        \* what the last operation of the run read from the list
    \* ---- Main._run_cmd (CmdSpec)
    args,          \* the parsed arguments: jobs, threshold, time_threshold
    cpu_count,     \* multiprocessing.cpu_count()
    run_params,    \* the RunParams handed to run_test_suites
    c_pc,          \* position in _run_cmd
    outcome,       \* how run_test_suites ended
    successes,     \* history: tests of the run that ended in success
    elapsed,       \* history: seconds the asset lists took
    exit_code,     \* exit status of the process, -1 while it runs
    asset_dir,     \* the files os.walk finds under assets_dir, in its order
    self_asset_lists, \* Soothe.asset_lists: the asset lists appended so far
    load_cached,   \* lru_cache holds the result of _load_asset_lists(self)
    load_log,      \* history: how each call on the Soothe object ended
    d_jobs,        \* AssetList.download: processes of the pool
    d_retries,     \* ctx.retries of the download workers
    max_retries,   \* max_retries of the calls of utils.download
    dm_pc,         \* where AssetList.download is
    d_pc,          \* per asset: where its _download_worker call is
    d_proc,        \* per asset: the pool process that runs it, 0 for none
    download_lock, \* per pool process: its download_lock is held
    d_i,           \* per asset: i of the loop of _download_worker
    attempt,       \* per asset: attempt of the loop of utils.download
    fetched,       \* history, per asset: how the attempts of the call ended
    waits          \* history, per asset: the sleeps of the call

job_vars  == <<pc, result, pending, output, file, enc_outcome, sc_outcome, calls>>
pool_vars == <<pool_state, inqueue, alive, outqueue, cb_pc, cb_result>>
main_vars == <<main_pc, next_i, test_results, printed, time_set, num_results>>
suite_vars == <<params, env, s_pc, encoders, enc_i, assets, suite_name,
                output_dir, dirs, files, tests, ran, skipped>>
\* The variables of the parts modelled on their own.
str_vars == <<res, shown>>
check_vars == <<cache, probes, tool, check_log>>
reg_vars == <<registry, cls_name, registered, r_pc, listed>>
cmd_vars == <<args, cpu_count, run_params, c_pc, outcome, successes, elapsed,
              exit_code>>
load_vars == <<asset_dir, self_asset_lists, load_cached, load_log>>
\* The parts about assets: loading the asset lists and downloading them.
dl_vars == <<d_jobs, d_retries, max_retries, dm_pc, d_pc, d_proc, download_lock,
             d_i, attempt, fetched, waits>>
more_vars == <<load_vars, dl_vars>>
aux_vars == <<str_vars, check_vars, reg_vars, cmd_vars, more_vars>>
\* What an engine run never changes: its inputs and the suite around it.
in_vars   == <<ntests, jobs, fail_fast, keep_files, quiet, suite_vars, aux_vars>>
hist_vars == <<trigger, late_start, completed, run_no>>
vars == <<in_vars, job_vars, pool_vars, main_vars, hist_vars>>

Tests == 1..ntests

\* ------------------------------------------------------------------ Result
\* Result() as the dataclass defaults build it. Times are 0 (default) or 1
\* (measured); asset_fname 0 stands for None.
NewResult ==
    [ asset_fname   |-> 0,
      encoder_name  |-> "None",
      encode_time   |-> 0,
      encode_result |-> NOT_RUN,
      vmaf_result   |-> NOT_RUN,
      vmaf_score    |-> 0,
      vmaf_time     |-> 0 ]

\* Variant that looks at vmaf_result before encode_result.
Str_VmafFirst(r) ==
    LET head == <<r.encoder_name, "-", ToString(r.asset_fname)>> IN
    IF r.vmaf_result # SUCCESS
    THEN head \o <<"->", "VMAF", r.vmaf_result>>
    ELSE IF r.encode_result # SUCCESS
    THEN head \o <<"->", "Encode", r.encode_result>>
    ELSE head \o <<"[", ToString(r.encode_time + r.vmaf_time), "s]",
                   "->", ToString(r.vmaf_score)>>

\* Result.__str__, as the list of the pieces of the text.
Str(r) ==
    LET head == <<r.encoder_name, "-", ToString(r.asset_fname)>> IN
    IF r.encode_result # SUCCESS
    THEN head \o <<"->", "Encode", r.encode_result>>
    ELSE IF r.vmaf_result # SUCCESS
    THEN head \o <<"->", "VMAF", r.vmaf_result>>
    ELSE head \o <<"[", ToString(r.encode_time + r.vmaf_time), "s]",
                   "->", ToString(r.vmaf_score)>>

\* ------------------------------------------------------- score text parsing
\* str.split(':'): the fields between separators.
RECURSIVE Split(_)
Split(s) ==
    IF \A i \in 1..Len(s) : s[i] # ":"
    THEN <<s>>
    ELSE LET k == CHOOSE i \in 1..Len(s) :
                      s[i] = ":" /\ \A m \in 1..(i-1) : s[m] # ":"
         IN  <<SubSeq(s, 1, k-1)>> \o Split(SubSeq(s, k+1, Len(s)))

\* float(field) succeeds on a non-empty run of digits.
IsNumber(f) == Len(f) > 0 /\ \A i \in 1..Len(f) : f[i] = "7"

\* Value of float(field): the digit "7" repeated Len(f) times.
RECURSIVE FloatOf(_)
FloatOf(f) == IF Len(f) = 0 THEN 0 ELSE 10 * FloatOf(SubSeq(f, 1, Len(f)-1)) + 7

\* Variant that reads the last field instead of the second.
ParseOk_LastField(text) ==
    Len(Split(text)) >= 2 /\ IsNumber(Split(text)[Len(Split(text))])

\* float(output.split(':')[1]) raises IndexError or ValueError, or returns.
ParseOk(text) == Len(Split(text)) >= 2 /\ IsNumber(Split(text)[2])

ParseScore(text) == FloatOf(Split(text)[2])

\* No call of encode or of the scorer has been made for the job.
NoCalls == [encode |-> 0, scorer |-> 0]

\* The local `output` of Test.run before its assignment.
Unbound == [bound |-> FALSE, text |-> <<>>]

\* ------------------------------------------------------------ name matching
\* The encoder catalog ENCODERS, sorted by name, and the asset lists that
\* _load_asset_lists finds. Asset names are unique inside one asset list only.
ENCODERS == << [name |-> "Dummy"], [name |-> "Gst"], [name |-> "Vkvs"] >>

\* The names of the encoder instances of the catalog.
EncoderNames == {ENCODERS[i].name : i \in 1..Len(ENCODERS)}

\* The encoders whose check runs a probe; Dummy has no binary and its check
\* returns True at once.
Probed == {"Gst", "Vkvs"}

AssetLists ==
    << [name |-> "L1", assets |-> <<"x", "y">>],
       [name |-> "L2", assets |-> <<"y", "z">>] >>

\* str.lower() on the names that occur.
Lower ==
    [n \in {"Dummy", "dummy", "Gst", "Vkvs", "Nope", "L1", "l1", "L2", "L9"} |->
        CASE n \in {"Dummy", "dummy"} -> "dummy"
          [] n = "Gst"  -> "gst"
          [] n = "Vkvs" -> "vkvs"
          [] n = "Nope" -> "nope"
          [] n \in {"L1", "l1"} -> "l1"
          [] n = "L2"   -> "l2"
          [] n = "L9"   -> "l9"]

\* The set of elements of a list.
Elems(q) == {q[i] : i \in 1..Len(q)}

\* matches = in_list_names & check_list_names
Matches(in_list, check_list) ==
    {Lower[x] : x \in Elems(in_list)} \cap {Lower[c.name] : c \in Elems(check_list)}

\* get_matches_from_list calls sys.exit: names were given and
\* len(matches) != len(in_list).
GetMatchesExits(in_list, check_list) ==
    /\ in_list # <<>>
    /\ Cardinality(Matches(in_list, check_list)) # Len(in_list)

\* What get_matches_from_list returns otherwise. None and the empty list are
\* both written <<>>.
GetMatches(in_list, check_list) ==
    IF in_list # <<>>
    THEN SelectSeq(check_list, LAMBDA c : Lower[c.name] \in Matches(in_list, check_list))
    ELSE check_list

\* [(asset_list.name(), asset) for asset_list in asset_lists
\*                             for asset in asset_list.assets()]
RECURSIVE AllAssets(_)
AllAssets(lists) ==
    IF lists = <<>> THEN <<>>
    ELSE [i \in 1..Len(Head(lists).assets) |->
             [list |-> Head(lists).name, name |-> Head(lists).assets[i]]]
         \o AllAssets(Tail(lists))

\* A variant of the filters in which the skip list is only looked at when
\* no asset names are given.
FilterAssets_NamesFirst(all, names, skip) ==
    IF names # <<>>
    THEN SelectSeq(all, LAMBDA a : a.name \in Elems(names))
    ELSE IF skip # <<>>
         THEN SelectSeq(all, LAMBDA a : a.name \notin Elems(skip))
         ELSE all

\* The two filters of _generate_assets; an empty or absent name list does
\* not filter.
FilterAssets(all, names, skip) ==
    LET named == IF names # <<>>
                 THEN SelectSeq(all, LAMBDA a : a.name \in Elems(names))
                 ELSE all
    IN  IF skip # <<>>
        THEN SelectSeq(named, LAMBDA a : a.name \notin Elems(skip))
        ELSE named

\* test_suite_name = '-'.join(names): written as the list of the names.
SuiteName(lists) == [i \in 1..Len(lists) |-> lists[i].name]

\* -------------------------------------------------------------------- Init
\* No Result is being rendered.
StrIdle ==
    /\ res = NewResult
    /\ shown = <<>>

\* No check has been called: the cache is empty.
CheckIdle ==
    /\ cache = <<>>
    /\ probes = [e \in Probed |-> 0]
    /\ tool = [e \in Probed |-> TRUE]
    /\ check_log = <<>>

\* The registry is not looked at.
RegIdle ==
    /\ registry = <<>>
    /\ cls_name = [c \in {} |-> "Dummy"]
    /\ registered = {}
    /\ r_pc = "none"
    /\ listed = <<>>

\* The arguments of a run command; None is written <<>>.
NoArgs == [jobs |-> 1, threshold |-> <<>>, time_threshold |-> <<>>]

\* No command is running.
CmdIdle ==
    /\ args = NoArgs
    /\ cpu_count = 1
    /\ run_params = NoArgs
    /\ c_pc = "none"
    /\ outcome = "none"
    /\ successes = 0
    /\ elapsed = 0
    /\ exit_code = -1

LoadIdle ==
    /\ asset_dir = <<>>
    /\ self_asset_lists = <<>>
    /\ load_cached = FALSE
    /\ load_log = <<>>

\* The assets AssetList.download is called for: those of the first list.
DlTasks == Elems(AssetLists[1].assets)

DlIdle ==
    /\ d_jobs = 1
    /\ d_retries = 1
    /\ max_retries = 1
    /\ dm_pc = "none"
    /\ d_pc = [k \in DlTasks |-> "unsubmitted"]
    /\ d_proc = [k \in DlTasks |-> 0]
    /\ download_lock = [p \in 1..1 |-> FALSE]
    /\ d_i = [k \in DlTasks |-> 0]
    /\ attempt = [k \in DlTasks |-> 0]
    /\ fetched = [k \in DlTasks |-> <<>>]
    /\ waits = [k \in DlTasks |-> 0]

MoreIdle ==
    /\ LoadIdle
    /\ DlIdle

\* The parts modelled on their own, at rest.
AuxIdle ==
    /\ StrIdle
    /\ CheckIdle
    /\ RegIdle
    /\ CmdIdle
    /\ MoreIdle

\* The suite level at rest, for the specifications of the engine and of a
\* single Test.
SuiteIdle ==
    /\ params = [encoders_names |-> <<>>, asset_lists_names |-> <<>>,
                 assets_names |-> <<>>, skip_assets_names |-> <<>>]
    /\ env = [vmaf_found |-> TRUE, avail |-> {}, stale |-> FALSE]
    /\ s_pc = "none"
    /\ encoders = <<>>
    /\ enc_i = 1
    /\ assets = <<>>
    /\ suite_name = <<>>
    /\ output_dir = <<"out">>
    /\ dirs = {}
    /\ files = {}
    /\ tests = <<>>
    /\ ran = <<>>
    /\ skipped = {}

\* Pool(self.params.jobs) has been built, test_results is empty, the
\* submission loop has not started. TestSuite.__init__ set time = 0.0 and
\* num_results = 0.
Init ==
    /\ ntests \in 1..NumTests
    /\ jobs \in 1..MaxJobs
    /\ fail_fast \in BOOLEAN
    /\ keep_files \in BOOLEAN
    /\ quiet = FALSE
    /\ pc = [j \in Tests |-> "unsubmitted"]
    /\ result = [j \in Tests |-> NewResult]
    /\ pending = [j \in Tests |-> "none"]
    /\ output = [j \in Tests |-> Unbound]
    /\ file = [j \in Tests |-> FALSE]
    /\ enc_outcome = [j \in Tests |-> "none"]
    /\ sc_outcome = [j \in Tests |-> "none"]
    /\ calls = [j \in Tests |-> NoCalls]
    /\ pool_state = "RUN"
    /\ inqueue = <<>>
    /\ alive = jobs
    /\ outqueue = <<>>
    /\ cb_pc = "idle"
    /\ cb_result = NewResult
    /\ main_pc = "submit"
    /\ next_i = 1
    /\ test_results = <<>>
    /\ printed = <<>>
    /\ time_set = FALSE
    /\ num_results = 0
    /\ trigger = {}
    /\ late_start = {}
    /\ completed = <<>>
    /\ run_no = 1
    /\ SuiteIdle
    /\ AuxIdle

\* ---------------------------------------------------------------- Test.run
\* Positions of a job inside Test.run (and _run_worker around it).
InTestRun == {"encode", "enc_except", "enc_finally", "score_if", "score_hung",
              "vmaf_except", "vmaf_finally", "cleanup"}

\* Test.run up to the first try: the names are recorded in the result.
TestRunEnter(r, j) == [r EXCEPT !.asset_fname = j, !.encoder_name = "Fake"]

\* except TimeoutExpired: ... / except: ...
ExceptEncodeResult(ex) == IF ex = "TimeoutExpired" THEN TIMEOUT ELSE ERROR

\* Variant without the assignment: the finally clause leaves what is there.
FinallyEncodeResult_Keep(r) == r.encode_result

\* finally: result.encode_result = EncodeTestResult.SUCCESS
FinallyEncodeResult(r) == SUCCESS

\* Variant without the re-raise: the exception is swallowed by the finally.
AfterEncodeFinally_Swallow(ex) == "score_if"

\* Where control goes when the finally clause of the encode try is done: a
\* pending exception is re-raised out of Test.run, otherwise on to the scorer.
AfterEncodeFinally(ex) == IF ex # "none" THEN "raised" ELSE "score_if"

\* if result.encode_result is EncodeTestResult.SUCCESS:
ScorerGuard(r) == r.encode_result = SUCCESS

\* if not keep_files and exists(output_filepath) and isfile(...): os.remove
AfterCleanup(keep, exists) == IF ~keep /\ exists THEN FALSE ELSE exists

\* Variant that calls encode again when it raised.
AfterEncodeExcept_Retry(ex) == "encode"

\* Where control goes after an except clause of the encode try: to the
\* finally clause; there is no loop around the call.
AfterEncodeExcept(ex) == "enc_finally"

\* self.params.encoder.encode(...) and, when it returns, encode_time.
\* An encode that returns has written the output file; one that raises may
\* have left a (partial) file or none.
EncodeCall(j) ==
    /\ pc[j] = "encode"
    /\ \E o \in EncodeOutcomes, wrote \in BOOLEAN :
          /\ (o = "ok") => wrote
          /\ enc_outcome' = [enc_outcome EXCEPT ![j] = o]
          /\ file' = [file EXCEPT ![j] = @ \/ wrote]
          /\ IF o = "ok"
             THEN /\ result' = [result EXCEPT ![j].encode_time = 1]
                  /\ pc' = [pc EXCEPT ![j] = "enc_finally"]
                  /\ UNCHANGED pending
             ELSE /\ pending' = [pending EXCEPT ![j] = o]
                  /\ pc' = [pc EXCEPT ![j] = "enc_except"]
                  /\ UNCHANGED result
    /\ calls' = [calls EXCEPT ![j].encode = @ + 1]
    /\ UNCHANGED <<output, sc_outcome>>

\* The except clause that matches the exception of encode.
EncodeExcept(j) ==
    /\ pc[j] = "enc_except"
    /\ result' = [result EXCEPT ![j].encode_result = ExceptEncodeResult(pending[j])]
    /\ pc' = [pc EXCEPT ![j] = AfterEncodeExcept(pending[j])]
    /\ UNCHANGED <<pending, output, file, enc_outcome, sc_outcome, calls>>

\* The finally clause of the encode try, then the pending raise if any.
EncodeFinally(j) ==
    /\ pc[j] = "enc_finally"
    /\ result' = [result EXCEPT ![j].encode_result = FinallyEncodeResult(result[j])]
    /\ pc' = [pc EXCEPT ![j] = AfterEncodeFinally(pending[j])]
    /\ UNCHANGED <<pending, output, file, enc_outcome, sc_outcome, calls>>

\* The texts of the engine runs: one that parses and one that does not.
EngineTexts == { <<"a", ":", "7">>, <<"a">> }

\* The texts a scorer call is drawn from: the engine runs use EngineTexts,
\* the runs of a single Test use ScorerOutputs and every text of at most
\* MaxText characters.
ScorerTexts ==
    IF main_pc = "none" THEN ScorerOutputs \cup TextsUpTo(MaxText) ELSE EngineTexts

\* if encode_result is SUCCESS: output = run_command_with_output(cmd), then
\* vmaf_time. No timeout is passed, and Popen does not check the exit
\* status: the call returns the text, fails to start the subprocess, or
\* never returns.
ScoreCall(j) ==
    /\ pc[j] = "score_if"
    /\ IF ScorerGuard(result[j])
       THEN \E o \in ScorerOutcomes, t \in ScorerTexts :
              /\ ~ScorerReturns(o) => t = CHOOSE x \in ScorerTexts : TRUE
              /\ sc_outcome' = [sc_outcome EXCEPT ![j] = o]
              /\ calls' = [calls EXCEPT ![j].scorer = @ + 1]
              /\ IF ScorerReturns(o)
                 THEN /\ output' = [output EXCEPT ![j] = [bound |-> TRUE, text |-> t]]
                      /\ result' = [result EXCEPT ![j].vmaf_time = 1]
                      /\ pc' = [pc EXCEPT ![j] = "vmaf_finally"]
                      /\ UNCHANGED pending
                 ELSE IF o = "hang"
                 THEN /\ pc' = [pc EXCEPT ![j] = "score_hung"]
                      /\ UNCHANGED <<output, result, pending>>
                 ELSE /\ pending' = [pending EXCEPT ![j] = o]
                      /\ pc' = [pc EXCEPT ![j] = "vmaf_except"]
                      /\ UNCHANGED <<output, result>>
       ELSE /\ pc' = [pc EXCEPT ![j] = "cleanup"]
            /\ UNCHANGED <<output, result, pending, sc_outcome, calls>>
    /\ UNCHANGED <<file, enc_outcome>>

\* except: result.vmaf_result = ERROR; raise
VmafExcept(j) ==
    /\ pc[j] = "vmaf_except"
    /\ result' = [result EXCEPT ![j].vmaf_result = ERROR]
    /\ pc' = [pc EXCEPT ![j] = "vmaf_finally"]
    /\ UNCHANGED <<pending, output, file, enc_outcome, sc_outcome, calls>>

\* finally: try: vmaf_score = float(output.split(':')[1]); vmaf_result =
\* SUCCESS / except (IndexError, ValueError): vmaf_result = FAIL.
\* When the scorer call raised, `output` was never assigned: reading it raises
\* UnboundLocalError, which the inner except does not catch and which leaves
\* Test.run in place of the original exception.
VmafFinally(j) ==
    /\ pc[j] = "vmaf_finally"
    /\ IF ~output[j].bound
       THEN /\ pending' = [pending EXCEPT ![j] = "UnboundLocalError"]
            /\ pc' = [pc EXCEPT ![j] = "raised"]
            /\ UNCHANGED result
       ELSE /\ result' = [result EXCEPT ![j] =
                  IF ParseOk(output[j].text)
                  THEN [@ EXCEPT !.vmaf_score = ParseScore(output[j].text),
                                 !.vmaf_result = SUCCESS]
                  ELSE [@ EXCEPT !.vmaf_result = FAIL]]
            /\ pc' = [pc EXCEPT ![j] = IF pending[j] # "none" THEN "raised" ELSE "cleanup"]
            /\ UNCHANGED pending
    /\ UNCHANGED <<output, file, enc_outcome, sc_outcome, calls>>

\* The cleanup at the end of Test.run, reached only when nothing was raised;
\* then Test.run returns.
Cleanup(j) ==
    /\ pc[j] = "cleanup"
    /\ file' = [file EXCEPT ![j] = AfterCleanup(keep_files, file[j])]
    /\ pc' = [pc EXCEPT ![j] = "returned"]
    /\ UNCHANGED <<result, pending, output, enc_outcome, sc_outcome, calls>>

\* One step of Test.run for job j.
TestRunStep(j) ==
    \/ EncodeCall(j)
    \/ EncodeExcept(j)
    \/ EncodeFinally(j)
    \/ ScoreCall(j)
    \/ VmafExcept(j)
    \/ VmafFinally(j)
    \/ Cleanup(j)

\* --------------------------------------------------------- the worker pool
\* Jobs that occupy a worker process: inside _run_worker.
Busy == {j \in Tests : pc[j] \in InTestRun \cup {"returned"}}

\* Variant that lets a worker start whatever the number of busy workers.
WorkerFree_Always(n, busy) == TRUE

\* A worker process is free to take the next task.
WorkerFree(n, busy) == busy < n

\* A free worker takes the oldest task and runs _run_worker on it:
\* test_result = TestResult(); test.run(test_result) up to the encode call.
\* Worker processes do not see Pool._state: until they are killed they keep
\* taking tasks that are already queued.
WorkerStart(j) ==
    /\ inqueue # <<>>
    /\ j = Head(inqueue)
    /\ WorkerFree(alive, Cardinality(Busy))
    /\ inqueue' = Tail(inqueue)
    /\ pc' = [pc EXCEPT ![j] = "encode"]
    /\ result' = [result EXCEPT ![j] = TestRunEnter(NewResult, j)]
    /\ late_start' = IF pool_state = "TERMINATE" THEN late_start \cup {j} ELSE late_start
    /\ UNCHANGED <<pending, output, file, enc_outcome, sc_outcome, calls>>
    /\ UNCHANGED <<pool_state, alive, outqueue, cb_pc, cb_result>>
    /\ UNCHANGED <<in_vars, main_vars, trigger, completed, run_no>>

\* _run_worker returns test_result: the worker sends it to the parent. A job
\* whose Test.run raised sends the exception instead; apply_async was given
\* no error_callback, so the parent drops it and the job's Result is lost.
WorkerReturn(j) ==
    /\ pc[j] = "returned"
    /\ pc' = [pc EXCEPT ![j] = "sent"]
    /\ outqueue' = Append(outqueue, result[j])
    /\ completed' = Append(completed, j)
    /\ UNCHANGED <<result, pending, output, file, enc_outcome, sc_outcome, calls>>
    /\ UNCHANGED <<pool_state, inqueue, alive, cb_pc, cb_result>>
    /\ UNCHANGED <<in_vars, main_vars, trigger, late_start, run_no>>

\* Variant that puts the new Result in front of the list.
AppendResult_Front(list, r) == <<r>> \o list

\* test_results.append(test_result)
AppendResult(list, r) == Append(list, r)

\* Variant that never terminates the pool.
CallbackTerminates_Never(ff, r) == FALSE

\* Variant that terminates the pool whatever fail_fast is.
CallbackTerminates_Always(ff, r) == TRUE

\* if self.params.fail_fast: (the Result is not looked at)
CallbackTerminates(ff, r) == ff

\* _callback up to and including the entry of pool.terminate():
\* print(test_result); if fail_fast: pool.terminate() sets Pool._state; without
\* fail_fast the Result is appended at once.
CallbackBegin ==
    /\ cb_pc = "idle"
    /\ outqueue # <<>>
    /\ LET r == Head(outqueue) IN
         /\ outqueue' = Tail(outqueue)
         /\ printed' = Append(printed, r)
         /\ IF CallbackTerminates(fail_fast, r)
            THEN /\ pool_state' = "TERMINATE"
                 /\ cb_pc' = "terminating"
                 /\ cb_result' = r
                 /\ trigger' = trigger \cup {r}
                 /\ UNCHANGED <<test_results, pc>>
            ELSE /\ test_results' = AppendResult(test_results, r)
                 /\ pc' = [pc EXCEPT ![r.asset_fname] = "collected"]
                 /\ UNCHANGED <<pool_state, cb_pc, cb_result, trigger>>
    /\ UNCHANGED <<result, pending, output, file, enc_outcome, sc_outcome, calls>>
    /\ UNCHANGED <<inqueue, alive>>
    /\ UNCHANGED <<in_vars, main_pc, next_i, time_set, num_results, late_start, completed, run_no>>

\* pool.terminate() kills the worker processes and drops the queued tasks;
\* jobs in the middle of Test.run stop where they are.
PoolTerminateKill ==
    /\ cb_pc = "terminating"
    /\ cb_pc' = "append"
    /\ alive' = 0
    /\ inqueue' = <<>>
    /\ pc' = [j \in Tests |-> IF j \in Busy THEN "killed" ELSE pc[j]]
    /\ UNCHANGED <<result, pending, output, file, enc_outcome, sc_outcome, calls>>
    /\ UNCHANGED <<pool_state, outqueue, cb_result>>
    /\ UNCHANGED <<in_vars, main_vars, hist_vars>>

\* test_results.append(test_result) after pool.terminate() has returned; the
\* result handler then finds its state TERMINATE and exits.
CallbackAppend ==
    /\ cb_pc = "append"
    /\ test_results' = AppendResult(test_results, cb_result)
    /\ pc' = [pc EXCEPT ![cb_result.asset_fname] = "collected"]
    /\ cb_pc' = "stopped"
    /\ UNCHANGED <<result, pending, output, file, enc_outcome, sc_outcome, calls>>
    /\ UNCHANGED <<pool_state, inqueue, alive, outqueue, cb_result>>
    /\ UNCHANGED <<in_vars, main_pc, next_i, printed, time_set, num_results, hist_vars>>

\* ---------------------------------------------------------- the main thread
\* Pool._check_running, called first by apply_async.
PoolRunning(st) == st = "RUN"

\* for test in tests: pool.apply_async(self._run_worker, (test,), callback).
\* apply_async raises ValueError('Pool not running') when the pool has been
\* terminated meanwhile; the error leaves _run_test_suite_in_parallel.
Submit ==
    /\ main_pc = "submit"
    /\ next_i <= ntests
    /\ IF PoolRunning(pool_state)
       THEN /\ inqueue' = Append(inqueue, next_i)
            /\ pc' = [pc EXCEPT ![next_i] = "queued"]
            /\ next_i' = next_i + 1
            /\ UNCHANGED main_pc
       ELSE /\ main_pc' = "raised"
            /\ UNCHANGED <<inqueue, pc, next_i>>
    /\ UNCHANGED <<result, pending, output, file, enc_outcome, sc_outcome, calls>>
    /\ UNCHANGED <<pool_state, alive, outqueue, cb_pc, cb_result>>
    /\ UNCHANGED <<in_vars, test_results, printed, time_set, num_results, hist_vars>>

\* pool.close() after the loop: only a running pool changes state.
Close ==
    /\ main_pc = "submit"
    /\ next_i > ntests
    /\ pool_state' = IF pool_state = "RUN" THEN "CLOSE" ELSE pool_state
    /\ main_pc' = "join"
    /\ UNCHANGED job_vars
    /\ UNCHANGED <<inqueue, alive, outqueue, cb_pc, cb_result>>
    /\ UNCHANGED <<in_vars, next_i, test_results, printed, time_set, num_results, hist_vars>>

\* Variant of a join that does not wait.
JoinReturns_NoWait == TRUE

\* pool.join() returns when the pool's threads have finished: a closed pool
\* has handled the outcome of every submitted job, a terminated one has
\* returned from the callback that terminated it.
JoinReturns ==
    IF pool_state = "CLOSE"
    THEN cb_pc = "idle" /\ \A j \in Tests : pc[j] \in {"raised", "collected"}
    ELSE cb_pc = "stopped"

\* pool.join(), then the end of the with block (Pool.__exit__ terminates).
Join ==
    /\ main_pc = "join"
    /\ JoinReturns
    /\ pool_state' = "TERMINATE"
    /\ alive' = 0
    /\ main_pc' = "record"
    /\ UNCHANGED job_vars
    /\ UNCHANGED <<inqueue, outqueue, cb_pc, cb_result>>
    /\ UNCHANGED <<in_vars, next_i, test_results, printed, time_set, num_results, hist_vars>>

\* self.time = perf_counter() - start; self.num_results = len(test_results)
Record ==
    /\ main_pc = "record"
    /\ time_set' = TRUE
    /\ num_results' = Len(test_results)
    /\ main_pc' = "done"
    /\ UNCHANGED <<job_vars, pool_vars>>
    /\ UNCHANGED <<in_vars, next_i, test_results, printed, hist_vars>>

\* ---------------------------------------------------------------- the specs
WorkerStep(j) ==
    /\ TestRunStep(j)
    /\ UNCHANGED <<in_vars, pool_vars, main_vars, hist_vars>>

Next ==
    \/ Submit
    \/ Close
    \/ Join
    \/ Record
    \/ \E j \in Tests : WorkerStart(j)
    \/ \E j \in Tests : WorkerStep(j)
    \/ \E j \in Tests : WorkerReturn(j)
    \/ CallbackBegin
    \/ PoolTerminateKill
    \/ CallbackAppend

Spec == Init /\ [][Next]_vars

\* The engine run of a run command given --quiet or not: files are not
\* kept.
InitQuiet ==
    /\ ntests \in 1..NumTests
    /\ jobs \in 1..MaxJobs
    /\ fail_fast \in BOOLEAN
    /\ keep_files = FALSE
    /\ quiet \in BOOLEAN
    /\ pc = [j \in Tests |-> "unsubmitted"]
    /\ result = [j \in Tests |-> NewResult]
    /\ pending = [j \in Tests |-> "none"]
    /\ output = [j \in Tests |-> Unbound]
    /\ file = [j \in Tests |-> FALSE]
    /\ enc_outcome = [j \in Tests |-> "none"]
    /\ sc_outcome = [j \in Tests |-> "none"]
    /\ calls = [j \in Tests |-> NoCalls]
    /\ pool_state = "RUN"
    /\ inqueue = <<>>
    /\ alive = jobs
    /\ outqueue = <<>>
    /\ cb_pc = "idle"
    /\ cb_result = NewResult
    /\ main_pc = "submit"
    /\ next_i = 1
    /\ test_results = <<>>
    /\ printed = <<>>
    /\ time_set = FALSE
    /\ num_results = 0
    /\ trigger = {}
    /\ late_start = {}
    /\ completed = <<>>
    /\ run_no = 1
    /\ SuiteIdle
    /\ AuxIdle

QuietSpec == InitQuiet /\ [][Next]_vars

\* Test.run called directly, MaxRuns times in a row, on one Test whose output
\* path stays the same.
InitJob ==
    /\ ntests = 1
    /\ jobs = 1
    /\ fail_fast = FALSE
    /\ keep_files \in BOOLEAN
    /\ quiet = FALSE
    /\ pc = [j \in Tests |-> "encode"]
    /\ result = [j \in Tests |-> TestRunEnter(NewResult, j)]
    /\ pending = [j \in Tests |-> "none"]
    /\ output = [j \in Tests |-> Unbound]
    /\ file = [j \in Tests |-> FALSE]
    /\ enc_outcome = [j \in Tests |-> "none"]
    /\ sc_outcome = [j \in Tests |-> "none"]
    /\ calls = [j \in Tests |-> NoCalls]
    /\ pool_state = "RUN"
    /\ inqueue = <<>>
    /\ alive = 0
    /\ outqueue = <<>>
    /\ cb_pc = "idle"
    /\ cb_result = NewResult
    /\ main_pc = "none"
    /\ next_i = 1
    /\ test_results = <<>>
    /\ printed = <<>>
    /\ time_set = FALSE
    /\ num_results = 0
    /\ trigger = {}
    /\ late_start = {}
    /\ completed = <<>>
    /\ run_no = 1
    /\ SuiteIdle
    /\ AuxIdle

\* The same Test is run again with a fresh Result; the file system keeps
\* what the previous run left.
RunAgain ==
    /\ run_no < MaxRuns
    /\ pc[1] \in {"returned", "raised"}
    /\ run_no' = run_no + 1
    /\ pc' = [pc EXCEPT ![1] = "encode"]
    /\ result' = [result EXCEPT ![1] = TestRunEnter(NewResult, 1)]
    /\ pending' = [pending EXCEPT ![1] = "none"]
    /\ output' = [output EXCEPT ![1] = Unbound]
    /\ enc_outcome' = [enc_outcome EXCEPT ![1] = "none"]
    /\ sc_outcome' = [sc_outcome EXCEPT ![1] = "none"]
    /\ calls' = [calls EXCEPT ![1] = NoCalls]
    /\ UNCHANGED <<file, in_vars, pool_vars, main_vars, trigger, late_start, completed>>

NextJob ==
    \/ WorkerStep(1)
    \/ RunAgain

JobSpec == InitJob /\ [][NextJob]_vars

\* The engine run with every thread and process scheduled: the main thread,
\* the result handler and the workers are OS threads and processes, so the
\* run does not stop while one of them can take a step.
FairSpec == Spec /\ WF_vars(Next)

\* ------------------------------------------------------------ str(Result)
\* What neither str(Result) nor the other parts modelled on their own touch.
run_vars == <<ntests, jobs, fail_fast, keep_files, quiet, suite_vars, job_vars,
              pool_vars, main_vars, hist_vars>>

\* The Results str() is applied to: every pair of outcomes, default and
\* measured times, default and parsed score.
Results ==
    [ asset_fname   : {0, 1},
      encoder_name  : {"None", "Fake"},
      encode_time   : {0, 1},
      encode_result : EncodeTestResult,
      vmaf_result   : EncodeTestResult,
      vmaf_score    : {0, 7},
      vmaf_time     : {0, 1} ]

\* No engine is running: one Test that was never submitted, an empty pool.
EngineIdle ==
    /\ ntests = 1
    /\ jobs = 1
    /\ fail_fast = FALSE
    /\ keep_files = FALSE
    /\ quiet = FALSE
    /\ pc = [j \in Tests |-> "unsubmitted"]
    /\ result = [j \in Tests |-> NewResult]
    /\ pending = [j \in Tests |-> "none"]
    /\ output = [j \in Tests |-> Unbound]
    /\ file = [j \in Tests |-> FALSE]
    /\ enc_outcome = [j \in Tests |-> "none"]
    /\ sc_outcome = [j \in Tests |-> "none"]
    /\ calls = [j \in Tests |-> NoCalls]
    /\ pool_state = "RUN"
    /\ inqueue = <<>>
    /\ alive = 0
    /\ outqueue = <<>>
    /\ cb_pc = "idle"
    /\ cb_result = NewResult
    /\ main_pc = "none"
    /\ next_i = 1
    /\ test_results = <<>>
    /\ printed = <<>>
    /\ time_set = FALSE
    /\ num_results = 0
    /\ trigger = {}
    /\ late_start = {}
    /\ completed = <<>>
    /\ run_no = 1

\* A Result of any content, not yet rendered.
InitStr ==
    /\ EngineIdle
    /\ SuiteIdle
    /\ CheckIdle
    /\ RegIdle
    /\ CmdIdle
    /\ res \in Results
    /\ shown = <<>>
    /\ MoreIdle

\* str(res), as print(test_result) calls it.
Show ==
    /\ shown = <<>>
    /\ shown' = Str(res)
    /\ UNCHANGED <<res, run_vars, check_vars, reg_vars, cmd_vars, more_vars>>

StrSpec == InitStr /\ [][Show]_vars

\* ----------------------------------------------------------- Encoder.check
\* @lru_cache(maxsize=128)
maxsize == 128

\* The key lru_cache makes of the arguments of check: (self, verbose).
CacheKey(e, v) == [enc |-> e, verbose |-> v]

\* Position of key k in the cache, 0 when it is not there.
CacheIndex(c, k) ==
    IF \E i \in 1..Len(c) : c[i].key = k
    THEN CHOOSE i \in 1..Len(c) : c[i].key = k
    ELSE 0

\* The cache without its i-th entry.
CacheDrop(c, i) == SubSeq(c, 1, i - 1) \o SubSeq(c, i + 1, Len(c))

\* The body of check: Encoder.check returns True for an encoder without a
\* binary; otherwise the result of which(binary), or of the probe command of
\* GStreamer.check and VKVS.check.
CheckBody(e) == IF e \in Probed THEN tool[e] ELSE TRUE

\* encoder.check(verbose), at most MaxChecks times in a row: a call whose
\* key is in the cache returns the cached value and makes the entry the most
\* recently used; any other call runs the body and stores what it returned,
\* in place of the least recently used entry when the cache is full.
CheckCall(e, v) ==
    /\ Len(check_log) < MaxChecks
    /\ LET k == CacheKey(e, v)
           i == CacheIndex(cache, k)
       IN  IF i # 0
           THEN /\ cache' = Append(CacheDrop(cache, i), cache[i])
                /\ check_log' = Append(check_log, [enc |-> e, verbose |-> v,
                                                   value |-> cache[i].value])
                /\ UNCHANGED probes
           ELSE /\ cache' = Append(IF Len(cache) = maxsize THEN Tail(cache) ELSE cache,
                                   [key |-> k, value |-> CheckBody(e)])
                /\ check_log' = Append(check_log, [enc |-> e, verbose |-> v,
                                                   value |-> CheckBody(e)])
                /\ probes' = IF e \in Probed
                             THEN [probes EXCEPT ![e] = @ + 1]
                             ELSE probes
    /\ UNCHANGED <<tool, run_vars, str_vars, reg_vars, cmd_vars, more_vars>>

\* Between two calls the tool an encoder needs is installed or removed.
ToolChange(e) ==
    /\ Len(check_log) < MaxChecks
    /\ tool' = [tool EXCEPT ![e] = ~@]
    /\ UNCHANGED <<cache, probes, check_log, run_vars, str_vars, reg_vars, cmd_vars,
                   more_vars>>

\* The encoder instances exist, check has not been called.
InitCheck ==
    /\ EngineIdle
    /\ SuiteIdle
    /\ StrIdle
    /\ RegIdle
    /\ CmdIdle
    /\ cache = <<>>
    /\ probes = [e \in Probed |-> 0]
    /\ tool \in [Probed -> BOOLEAN]
    /\ check_log = <<>>
    /\ MoreIdle

NextCheck ==
    \/ \E e \in EncoderNames, v \in BOOLEAN : CheckCall(e, v)
    \/ \E e \in Probed : ToolChange(e)

CheckSpec == InitCheck /\ [][NextCheck]_vars

\* --------------------------------------------------------- register_encoder
\* The encoder classes that carry @register_encoder.
Classes == 1..NumClasses

\* The order of str on the encoder names that occur.
NameRank == [n \in EncoderNames |->
                CASE n = "Dummy" -> 1 [] n = "Gst" -> 2 [] n = "Vkvs" -> 3]

\* list.sort step: x is put behind the entries whose key is not greater, so
\* that equal keys keep their order (the sort is stable).
RECURSIVE InsertByName(_, _)
InsertByName(q, x) ==
    IF q = <<>> THEN <<x>>
    ELSE IF NameRank[q[Len(q)].name] <= NameRank[x.name]
    THEN Append(q, x)
    ELSE Append(InsertByName(SubSeq(q, 1, Len(q) - 1), x), q[Len(q)])

\* ENCODERS.sort(key=lambda enc: enc.encoder_name)
RECURSIVE SortByName(_)
SortByName(q) ==
    IF q = <<>> THEN <<>>
    ELSE InsertByName(SortByName(SubSeq(q, 1, Len(q) - 1)), q[Len(q)])

\* Variant that leaves out the sort.
AfterAppend_NoSort(q) == q

\* What register_encoder does to the list once the instance is appended.
AfterAppend(q) == SortByName(q)

\* register_encoder(cls), run by the decorator when the class is defined:
\* ENCODERS.append(cls()); ENCODERS.sort(...)
RegisterEncoder(c) ==
    /\ r_pc = "import"
    /\ c \notin registered
    /\ registry' = AfterAppend(Append(registry, [cls |-> c, name |-> cls_name[c]]))
    /\ registered' = registered \cup {c}
    /\ UNCHANGED <<cls_name, r_pc, listed>>
    /\ UNCHANGED <<run_vars, str_vars, check_vars, cmd_vars, more_vars>>

\* The imports are over, a command starts.
StartCommand ==
    /\ r_pc = "import"
    /\ r_pc' = "run"
    /\ UNCHANGED <<registry, cls_name, registered, listed>>
    /\ UNCHANGED <<run_vars, str_vars, check_vars, cmd_vars, more_vars>>

\* list_encoders: for encoder in ENCODERS: print(...), with or without
\* encoder.check.
ListEncoders ==
    /\ r_pc = "run"
    /\ listed' = [i \in 1..Len(registry) |-> registry[i].name]
    /\ UNCHANGED <<registry, cls_name, registered, r_pc>>
    /\ UNCHANGED <<run_vars, str_vars, check_vars, cmd_vars, more_vars>>

\* run_test_suites: encoders = get_matches_from_list(names, ENCODERS, ...),
\* which is ENCODERS itself when no name is given, then the loop over it.
UseEncoders ==
    /\ r_pc = "run"
    /\ \E names \in {<<>>, <<"dummy">>, <<"Gst">>, <<"Nope">>} :
          /\ ~GetMatchesExits(names, registry)
          /\ listed' = SuiteName(GetMatches(names, registry))
    /\ UNCHANGED <<registry, cls_name, registered, r_pc>>
    /\ UNCHANGED <<run_vars, str_vars, check_vars, cmd_vars, more_vars>>

\* The encoder classes are about to be defined; ENCODERS = [].
InitReg ==
    /\ EngineIdle
    /\ SuiteIdle
    /\ StrIdle
    /\ CheckIdle
    /\ CmdIdle
    /\ registry = <<>>
    /\ cls_name \in [Classes -> EncoderNames]
    /\ registered = {}
    /\ r_pc = "import"
    /\ listed = <<>>
    /\ MoreIdle

NextReg ==
    \/ \E c \in Classes : RegisterEncoder(c)
    \/ StartCommand
    \/ ListEncoders
    \/ UseEncoders

RegSpec == InitReg /\ [][NextReg]_vars

\* ------------------------------------------------------------ Main._run_cmd
\* Variant that keeps a --jobs of 0.
NormJobs_KeepZero(j, cores) == IF j >= 0 THEN j ELSE cores

\* args.jobs if args.jobs > 0 else multiprocessing.cpu_count()
NormJobs(j, cores) == IF j > 0 THEN j ELSE cores

\* How run_test_suites can end: it returns, get_matches_from_list calls
\* sys.exit with a message, or a RuntimeError is raised.
RunOutcomes == {"return", "SystemExit", "RuntimeError"}

\* The exit status of the process for each of them: _run_cmd returns and the
\* interpreter ends normally; sys.exit(ex.code) with a message as code and an
\* uncaught exception both end it with status 1.
ExitStatus(o) == IF o = "return" THEN 0 ELSE 1

\* _run_cmd up to the call: the worker count is normalised, the arguments
\* are copied into RunParams.
RunCmdParams ==
    /\ c_pc = "run_cmd"
    /\ run_params' = [jobs |-> NormJobs(args.jobs, cpu_count),
                      threshold |-> args.threshold,
                      time_threshold |-> args.time_threshold]
    /\ c_pc' = "run_test_suites"
    /\ UNCHANGED <<args, cpu_count, outcome, successes, elapsed, exit_code>>
    /\ UNCHANGED <<run_vars, str_vars, check_vars, reg_vars, more_vars>>

\* soothe.run_test_suites(params) as a whole: it ends in one of the three
\* ways, after some of the tests succeeded and some time went by. Nothing in
\* it reads params.threshold or params.time_threshold.
RunTestSuites ==
    /\ c_pc = "run_test_suites"
    /\ \E o \in RunOutcomes, n \in 0..NumTests, t \in 0..MaxSecs :
          /\ (o # "return") => (n = 0 /\ t = 0)
          /\ outcome' = o
          /\ successes' = n
          /\ elapsed' = t
    /\ c_pc' = "after_call"
    /\ UNCHANGED <<args, cpu_count, run_params, exit_code>>
    /\ UNCHANGED <<run_vars, str_vars, check_vars, reg_vars, more_vars>>

\* except SystemExit as ex: sys.exit(ex.code); otherwise _run_cmd, Main.run
\* and soothe_main return, or the exception ends the process.
ProcessExit ==
    /\ c_pc = "after_call"
    /\ exit_code' = ExitStatus(outcome)
    /\ c_pc' = "exited"
    /\ UNCHANGED <<args, cpu_count, run_params, outcome, successes, elapsed>>
    /\ UNCHANGED <<run_vars, str_vars, check_vars, reg_vars, more_vars>>

\* The run command has been parsed: any integer for --jobs, the thresholds
\* given or not.
InitCmd ==
    /\ EngineIdle
    /\ SuiteIdle
    /\ StrIdle
    /\ CheckIdle
    /\ RegIdle
    /\ args \in [jobs : (0 - 1)..MaxJobs,
                  threshold : {<<>>} \cup {<<n>> : n \in 0..NumTests},
                  time_threshold : {<<>>} \cup {<<t>> : t \in 0..MaxSecs}]
    /\ cpu_count \in 1..MaxJobs
    /\ run_params = NoArgs
    /\ c_pc = "run_cmd"
    /\ outcome = "none"
    /\ successes = 0
    /\ elapsed = 0
    /\ exit_code = -1
    /\ MoreIdle

NextCmd ==
    \/ RunCmdParams
    \/ RunTestSuites
    \/ ProcessExit

CmdSpec == InitCmd /\ [][NextCmd]_vars

\* ------------------------------------------- run_test_suites, TestSuite.run
\* What the suite level leaves alone: the engine run is taken as a whole.
engine_vars == <<ntests, jobs, fail_fast, keep_files, quiet, job_vars, pool_vars,
                 main_pc, next_i, test_results, printed, hist_vars, aux_vars>>

\* The names test_suite_name can take.
SuiteNames == { <<"L1">>, <<"L2">>, <<"L1", "L2">> }

\* Directories and output files left by earlier invocations that kept their
\* files: one per suite name, and the one nested in it.
StaleDirs ==
    {<<"out">>} \cup {<<"out", n>> : n \in SuiteNames}
                \cup {<<"out", n, n>> : n \in SuiteNames}

StaleFiles ==
    {[dir |-> d, name |-> a] : d \in StaleDirs \ {<<"out">>}, a \in {"x", "y", "z"}}

\* Path p is root or lies below it.
IsUnder(p, root) == Len(p) >= Len(root) /\ SubSeq(p, 1, Len(root)) = root

\* os.makedirs(p): p and the directories above it.
MakeDirs(p) == {SubSeq(p, 1, k) : k \in 1..Len(p)}

\* Variant that goes on without the scorer binary.
VmafMissing_Never(found) == FALSE

\* if not self.vmaf_binary: raise RuntimeError('No VMAF binary')
VmafMissing(found) == ~found

\* Variant that never skips an encoder.
SkipEncoder_Never(ok) == FALSE

\* if not encoder.check(self.params.verbose): ... return
SkipEncoder(ok) == ~ok

\* os.path.join(self.params.output_dir, self.params.name)
JoinOutputDir(dir, name) == Append(dir, name)

\* Variant that binds every Test to the first encoder of the catalog.
TestOf_FirstEncoder(asset, encoder, dir) ==
    [encoder |-> ENCODERS[1].name, asset |-> asset, output_dir |-> dir]

\* Test(TestParams(encoder = encoder, asset = asset, output_dir = ...))
TestOf(asset, encoder, dir) ==
    [encoder |-> encoder, asset |-> asset, output_dir |-> dir]

\* _generate_tests: for asset in self.params.assets: tests.append(Test(...))
RECURSIVE GenerateTests(_, _, _)
GenerateTests(as, encoder, dir) ==
    IF as = <<>> THEN <<>>
    ELSE <<TestOf(Head(as), encoder, dir)>> \o GenerateTests(Tail(as), encoder, dir)

\* output_filepath of Test.run: output_dir joined with asset name + ".y4m"
OutputPath(t) == [dir |-> t.output_dir, name |-> t.asset.name]

\* A run command starts: Soothe holds output_dir, nothing has been checked.
InitSuite ==
    /\ ntests = 1
    /\ jobs = 1
    /\ fail_fast = FALSE
    /\ keep_files \in BOOLEAN
    /\ quiet = FALSE
    /\ pc = [j \in Tests |-> "unsubmitted"]
    /\ result = [j \in Tests |-> NewResult]
    /\ pending = [j \in Tests |-> "none"]
    /\ output = [j \in Tests |-> Unbound]
    /\ file = [j \in Tests |-> FALSE]
    /\ enc_outcome = [j \in Tests |-> "none"]
    /\ sc_outcome = [j \in Tests |-> "none"]
    /\ calls = [j \in Tests |-> NoCalls]
    /\ pool_state = "RUN"
    /\ inqueue = <<>>
    /\ alive = 0
    /\ outqueue = <<>>
    /\ cb_pc = "idle"
    /\ cb_result = NewResult
    /\ main_pc = "suite"
    /\ next_i = 1
    /\ test_results = <<>>
    /\ printed = <<>>
    /\ time_set = FALSE
    /\ num_results = 0
    /\ trigger = {}
    /\ late_start = {}
    /\ completed = <<>>
    /\ run_no = 1
    /\ params \in [encoders_names    : {<<>>, <<"dummy">>, <<"Nope">>,
                                         <<"dummy", "Dummy">>},
                    asset_lists_names : {<<>>, <<"l1">>, <<"L9">>},
                    assets_names      : {<<>>, <<"y">>, <<"q">>, <<"x", "y">>},
                    skip_assets_names : {<<>>, <<"y">>, <<"x", "y", "z">>}]
    /\ env \in [vmaf_found : BOOLEAN,
                 avail      : {{"Dummy"} \cup a : a \in SUBSET Probed},
                 stale      : BOOLEAN]
    /\ s_pc = "check_vmaf"
    /\ encoders = <<>>
    /\ enc_i = 1
    /\ assets = <<>>
    /\ suite_name = <<>>
    /\ output_dir = <<"out">>
    /\ dirs = IF env.stale THEN StaleDirs ELSE {}
    /\ files = IF env.stale THEN StaleFiles ELSE {}
    /\ tests = <<>>
    /\ ran = <<>>
    /\ skipped = {}
    /\ AuxIdle

\* self._check_vmaf(); if not self.vmaf_binary: raise RuntimeError
CheckVmaf ==
    /\ s_pc = "check_vmaf"
    /\ s_pc' = IF VmafMissing(env.vmaf_found) THEN "error" ELSE "match_encoders"
    /\ UNCHANGED <<params, env, encoders, enc_i, assets, suite_name,
                   output_dir, dirs, files, tests, ran, skipped>>
    /\ UNCHANGED <<engine_vars, time_set, num_results>>

\* encoders = get_matches_from_list(params.encoders_names, ENCODERS, ...);
\* if len(encoders) == 0: raise RuntimeError('No encoders to test')
MatchEncoders ==
    /\ s_pc = "match_encoders"
    /\ IF GetMatchesExits(params.encoders_names, ENCODERS)
       THEN /\ s_pc' = "error"
            /\ UNCHANGED encoders
       ELSE /\ encoders' = GetMatches(params.encoders_names, ENCODERS)
            /\ s_pc' = IF Len(encoders') = 0 THEN "error" ELSE "generate_assets"
    /\ UNCHANGED <<params, env, enc_i, assets, suite_name,
                   output_dir, dirs, files, tests, ran, skipped>>
    /\ UNCHANGED <<engine_vars, time_set, num_results>>

\* (test_suite_name, assets) = self._generate_assets(params), which exits
\* for an unknown asset list and raises for an empty asset set; then
\* TestSuite(params.as_test_suite_params(..., self.output_dir)).
GenerateAssets ==
    /\ s_pc = "generate_assets"
    /\ IF GetMatchesExits(params.asset_lists_names, AssetLists)
       THEN /\ s_pc' = "error"
            /\ UNCHANGED <<assets, suite_name, time_set, num_results>>
       ELSE LET asset_lists == GetMatches(params.asset_lists_names, AssetLists)
                found == FilterAssets(AllAssets(asset_lists), params.assets_names,
                                      params.skip_assets_names)
            IN  IF Len(found) = 0
                THEN /\ s_pc' = "error"
                     /\ UNCHANGED <<assets, suite_name, time_set, num_results>>
                ELSE /\ assets' = found
                     /\ suite_name' = SuiteName(asset_lists)
                     /\ time_set' = FALSE
                     /\ num_results' = 0
                     /\ s_pc' = "loop"
    /\ UNCHANGED <<params, env, encoders, enc_i, output_dir, dirs, files,
                   tests, ran, skipped>>
    /\ UNCHANGED engine_vars

\* The encoder test_suite.run is called with.
Encoder == encoders[enc_i].name

\* TestSuite.run for an encoder whose check fails: the skip message, return.
SuiteSkip ==
    /\ s_pc = "loop"
    /\ enc_i <= Len(encoders)
    /\ SkipEncoder(Encoder \in env.avail)
    /\ skipped' = skipped \cup {Encoder}
    /\ enc_i' = enc_i + 1
    /\ UNCHANGED <<params, env, s_pc, encoders, assets, suite_name,
                   output_dir, dirs, files, tests, ran>>
    /\ UNCHANGED <<engine_vars, time_set, num_results>>

\* TestSuite.run up to the engine: params.output_dir is joined with the
\* suite name, that directory is removed if it exists and created, the
\* tests are generated.
SuitePrepare ==
    /\ s_pc = "loop"
    /\ enc_i <= Len(encoders)
    /\ ~SkipEncoder(Encoder \in env.avail)
    /\ output_dir' = JoinOutputDir(output_dir, suite_name)
    /\ dirs' = {d \in dirs : ~IsUnder(d, output_dir')} \cup MakeDirs(output_dir')
    /\ files' = {f \in files : ~IsUnder(f.dir, output_dir')}
    /\ tests' = GenerateTests(assets, Encoder, output_dir')
    /\ s_pc' = "run_engine"
    /\ UNCHANGED <<params, env, encoders, enc_i, assets, suite_name, ran, skipped>>
    /\ UNCHANGED <<engine_vars, time_set, num_results>>

\* _run_test_suite_in_parallel(tests) as a whole, without fail_fast: every
\* test writes its output file; the tests of `raised` raise, are not
\* collected and leave what they wrote (if `partial`); the others are
\* collected and leave their file when keep_files is set.
SuiteEngine ==
    /\ s_pc = "run_engine"
    /\ \E raised \in SUBSET (1..Len(tests)), partial \in BOOLEAN :
          /\ (raised = {}) => partial
          /\ files' = files
                \cup {OutputPath(tests[i]) : i \in {k \in raised : partial}}
                \cup {OutputPath(tests[i]) : i \in {k \in 1..Len(tests) :
                                                      k \notin raised /\ keep_files}}
          /\ num_results' = Len(tests) - Cardinality(raised)
    /\ time_set' = TRUE
    /\ ran' = Append(ran, [encoder |-> Encoder, dir |-> output_dir,
                           tests |-> tests, stale |-> files])
    /\ enc_i' = enc_i + 1
    /\ s_pc' = "loop"
    /\ UNCHANGED <<params, env, encoders, assets, suite_name, output_dir,
                   dirs, tests, skipped>>
    /\ UNCHANGED engine_vars

\* The loop over the encoders is over: run_test_suites returns.
SuiteDone ==
    /\ s_pc = "loop"
    /\ enc_i > Len(encoders)
    /\ s_pc' = "done"
    /\ UNCHANGED <<params, env, encoders, enc_i, assets, suite_name,
                   output_dir, dirs, files, tests, ran, skipped>>
    /\ UNCHANGED <<engine_vars, time_set, num_results>>

NextSuite ==
    \/ CheckVmaf
    \/ MatchEncoders
    \/ GenerateAssets
    \/ SuiteSkip
    \/ SuitePrepare
    \/ SuiteEngine
    \/ SuiteDone

SuiteSpec == InitSuite /\ [][NextSuite]_vars

\* ------------------------------------------------ Soothe._load_asset_lists
\* soothe.py: the asset lists of a Soothe object. The directory under
\* assets_dir stays as it is while the object lives.
MaxFiles == 3
MaxCalls == 3

ListNames == {"L1", "L2"}

\* What a .json file of the directory holds: an asset list of some name, or
\* something from_json_file raises OSError, ValueError or LookupError on.
FileKinds == ListNames \cup {"bad"}

AssetDirs == UNION {[1..n -> FileKinds] : n \in 0..MaxFiles}

\* A variant in which no name counts as repeated.
Repeated_Never(name, lists) == FALSE

\* asset_list.content.name in [a.content.name for a in self.asset_lists]
Repeated(name, lists) == \E i \in 1..Len(lists) : lists[i].name = name

\* The loop of _load_asset_lists from the i-th file on: a file that fails to
\* load is reported and passed over, a repeated name raises RuntimeError out
\* of the loop, any other asset list is appended.
RECURSIVE WalkFrom(_, _, _)
WalkFrom(dir, i, lists) ==
    IF i > Len(dir) THEN [lists |-> lists, raised |-> FALSE]
    ELSE IF dir[i] = "bad" THEN WalkFrom(dir, i + 1, lists)
    ELSE IF Repeated(dir[i], lists) THEN [lists |-> lists, raised |-> TRUE]
    ELSE WalkFrom(dir, i + 1, Append(lists, [file |-> i, name |-> dir[i]]))

\* One call of the cached method: a hit runs nothing; a miss walks the
\* directory and raises on a repeated name or when no asset list is loaded.
\* lru_cache stores a result only when the call returns.
LoadAssetLists ==
    IF load_cached
    THEN [lists |-> self_asset_lists, cached |-> TRUE, raised |-> FALSE]
    ELSE LET w == WalkFrom(asset_dir, 1, self_asset_lists)
             raised == w.raised \/ Len(w.lists) = 0
         IN  [lists |-> w.lists, cached |-> ~raised, raised |-> raised]

\* download_assets: loads, then matches the names and downloads, either of
\* which can end the call in an error.
DownloadAssets ==
    /\ Len(load_log) < MaxCalls
    /\ \E failed \in BOOLEAN :
         LET l == LoadAssetLists
         IN  /\ self_asset_lists' = l.lists
             /\ load_cached' = l.cached
             /\ load_log' = Append(load_log,
                    IF l.raised \/ failed THEN "error" ELSE "ok")
    /\ UNCHANGED <<asset_dir, run_vars, str_vars, check_vars, reg_vars, cmd_vars,
                   dl_vars>>

\* run_test_suites: raises or exits before _generate_assets when the scorer
\* or an encoder name is not found; otherwise loads and goes on.
RunTestSuitesLoads ==
    /\ Len(load_log) < MaxCalls
    /\ \E early \in BOOLEAN, failed \in BOOLEAN :
         IF early
         THEN /\ load_log' = Append(load_log, "error")
              /\ UNCHANGED <<self_asset_lists, load_cached>>
         ELSE LET l == LoadAssetLists
              IN  /\ self_asset_lists' = l.lists
                  /\ load_cached' = l.cached
                  /\ load_log' = Append(load_log,
                         IF l.raised \/ failed THEN "error" ELSE "ok")
    /\ UNCHANGED <<asset_dir, run_vars, str_vars, check_vars, reg_vars, cmd_vars,
                   dl_vars>>

\* list_asset_lists: loads and prints.
ListAssetLists ==
    /\ Len(load_log) < MaxCalls
    /\ LET l == LoadAssetLists
       IN  /\ self_asset_lists' = l.lists
           /\ load_cached' = l.cached
           /\ load_log' = Append(load_log, IF l.raised THEN "error" ELSE "ok")
    /\ UNCHANGED <<asset_dir, run_vars, str_vars, check_vars, reg_vars, cmd_vars,
                   dl_vars>>

\* The cache is one for all Soothe objects and holds maxsize entries: calls
\* on other objects push this object's entry out.
CacheEvict ==
    /\ load_cached
    /\ load_cached' = FALSE
    /\ UNCHANGED <<asset_dir, self_asset_lists, load_log>>
    /\ UNCHANGED <<run_vars, str_vars, check_vars, reg_vars, cmd_vars, dl_vars>>

InitLoad ==
    /\ EngineIdle
    /\ SuiteIdle
    /\ StrIdle
    /\ CheckIdle
    /\ RegIdle
    /\ CmdIdle
    /\ DlIdle
    /\ asset_dir \in AssetDirs
    /\ self_asset_lists = <<>>
    /\ load_cached = FALSE
    /\ load_log = <<>>

NextLoad ==
    \/ DownloadAssets
    \/ RunTestSuitesLoads
    \/ ListAssetLists
    \/ CacheEvict

LoadSpec == InitLoad /\ [][NextLoad]_vars

\* ------------------------------------- AssetList.download, utils.download
\* asset_list.py and utils.py: the assets of one list downloaded by a pool
\* of processes, each download retried.
MaxRetries == 2

old_vars == <<run_vars, str_vars, check_vars, reg_vars, cmd_vars, load_vars>>

\* The position of an asset in self.assets().
DlIndex(k) == CHOOSE n \in 1..Len(AssetLists[1].assets) : AssetLists[1].assets[n] = k

\* A pool process is inside _download_worker for the asset.
DlActive(k) == d_pc[k] \notin {"unsubmitted", "queued", "done", "failed"}

\* How an attempt inside the lock can end: the copy completes, urlopen or
\* the copy raises URLError, something raises another OSError, or the server
\* stays silent (urlopen is called without a timeout).
FetchOutcomes == {"ok", "URLError", "OSError", "blocks"}

\* pool.apply_async for the next asset of self.assets().
DlSubmit ==
    /\ dm_pc = "submit"
    /\ \E k \in DlTasks :
         /\ d_pc[k] = "unsubmitted"
         /\ \A o \in DlTasks : DlIndex(o) < DlIndex(k) => d_pc[o] # "unsubmitted"
         /\ d_pc' = [d_pc EXCEPT ![k] = "queued"]
    /\ UNCHANGED <<d_jobs, d_retries, max_retries, dm_pc, d_proc, download_lock,
                   d_i, attempt, fetched, waits>>
    /\ UNCHANGED old_vars

\* pool.close() after the last apply_async.
DlClose ==
    /\ dm_pc = "submit"
    /\ \A k \in DlTasks : d_pc[k] # "unsubmitted"
    /\ dm_pc' = "join"
    /\ UNCHANGED <<d_jobs, d_retries, max_retries, d_pc, d_proc, download_lock,
                   d_i, attempt, fetched, waits>>
    /\ UNCHANGED old_vars

\* A free pool process takes the oldest task and enters _download_worker:
\* with verify set, a file already there with the right checksum ends the
\* call; otherwise the loop starts with a call of download.
DlWorkerTake(p) ==
    /\ p \in 1..d_jobs
    /\ \A o \in DlTasks : DlActive(o) => d_proc[o] # p
    /\ \E k \in DlTasks, present \in BOOLEAN :
         /\ d_pc[k] = "queued"
         /\ \A o \in DlTasks : DlIndex(o) < DlIndex(k) => d_pc[o] # "queued"
         /\ d_proc' = [d_proc EXCEPT ![k] = p]
         /\ d_pc' = [d_pc EXCEPT ![k] = IF present THEN "done" ELSE "try"]
    /\ UNCHANGED <<d_jobs, d_retries, max_retries, dm_pc, download_lock,
                   d_i, attempt, fetched, waits>>
    /\ UNCHANGED old_vars

\* with download_lock: the lock is an object in the memory of the process
\* that runs the call.
Acquire(k) ==
    /\ d_pc[k] = "try"
    /\ ~download_lock[d_proc[k]]
    /\ download_lock' = [download_lock EXCEPT ![d_proc[k]] = TRUE]
    /\ d_pc' = [d_pc EXCEPT ![k] = "inside"]
    /\ UNCHANGED <<d_jobs, d_retries, max_retries, dm_pc, d_proc,
                   d_i, attempt, fetched, waits>>
    /\ UNCHANGED old_vars

\* urlopen and copyfileobj inside the lock, and what download does with the
\* outcome: done and break, sleep before the next attempt, raise URLError
\* after the last one, or let another exception through.
Fetch(k) ==
    /\ d_pc[k] = "inside"
    /\ \E o \in FetchOutcomes :
         IF o = "blocks"
         THEN /\ d_pc' = [d_pc EXCEPT ![k] = "blocked"]
              /\ UNCHANGED <<download_lock, fetched>>
         ELSE /\ download_lock' = [download_lock EXCEPT ![d_proc[k]] = FALSE]
              /\ fetched' = [fetched EXCEPT ![k] = Append(@, o)]
              /\ d_pc' = [d_pc EXCEPT ![k] =
                     CASE o = "ok" -> "returned"
                       [] o = "OSError" -> "OSError"
                       [] o = "URLError" ->
                            IF attempt[k] < max_retries - 1
                            THEN "sleep" ELSE "URLError"]
    /\ UNCHANGED <<d_jobs, d_retries, max_retries, dm_pc, d_proc, d_i, attempt, waits>>
    /\ UNCHANGED old_vars

\* time.sleep(random.uniform(1, 2**attempt)), then the next attempt.
Sleep(k) ==
    /\ d_pc[k] = "sleep"
    /\ waits' = [waits EXCEPT ![k] = @ + 1]
    /\ attempt' = [attempt EXCEPT ![k] = @ + 1]
    /\ d_pc' = [d_pc EXCEPT ![k] = "try"]
    /\ UNCHANGED <<d_jobs, d_retries, max_retries, dm_pc, d_proc, download_lock,
                   d_i, fetched>>
    /\ UNCHANGED old_vars

\* download returned: break, then the checksum of the file.
AfterDownload(k) ==
    /\ d_pc[k] = "returned"
    /\ \E good \in BOOLEAN :
         d_pc' = [d_pc EXCEPT ![k] = IF good THEN "done" ELSE "failed"]
    /\ UNCHANGED <<d_jobs, d_retries, max_retries, dm_pc, d_proc, download_lock,
                   d_i, attempt, fetched, waits>>
    /\ UNCHANGED old_vars

\* except URLError: continue with another call of download while the loop of
\* _download_worker lasts, then RuntimeError.
ExceptURLError(k) ==
    /\ d_pc[k] = "URLError"
    /\ IF d_i[k] + 1 < d_retries
       THEN /\ d_i' = [d_i EXCEPT ![k] = @ + 1]
            /\ attempt' = [attempt EXCEPT ![k] = 0]
            /\ fetched' = [fetched EXCEPT ![k] = <<>>]
            /\ waits' = [waits EXCEPT ![k] = 0]
            /\ d_pc' = [d_pc EXCEPT ![k] = "try"]
       ELSE /\ d_pc' = [d_pc EXCEPT ![k] = "failed"]
            /\ UNCHANGED <<d_i, attempt, fetched, waits>>
    /\ UNCHANGED <<d_jobs, d_retries, max_retries, dm_pc, d_proc, download_lock>>
    /\ UNCHANGED old_vars

\* except OSError: RuntimeError.
ExceptOSError(k) ==
    /\ d_pc[k] = "OSError"
    /\ d_pc' = [d_pc EXCEPT ![k] = "failed"]
    /\ UNCHANGED <<d_jobs, d_retries, max_retries, dm_pc, d_proc, download_lock,
                   d_i, attempt, fetched, waits>>
    /\ UNCHANGED old_vars

\* pool.join() returns when every task has ended; a task that was not
\* successful ends the process.
DlJoin ==
    /\ dm_pc = "join"
    /\ \A k \in DlTasks : d_pc[k] \in {"done", "failed"}
    /\ dm_pc' = IF \E k \in DlTasks : d_pc[k] = "failed" THEN "exit" ELSE "finished"
    /\ UNCHANGED <<d_jobs, d_retries, max_retries, d_pc, d_proc, download_lock,
                   d_i, attempt, fetched, waits>>
    /\ UNCHANGED old_vars

InitDl ==
    /\ EngineIdle
    /\ SuiteIdle
    /\ StrIdle
    /\ CheckIdle
    /\ RegIdle
    /\ CmdIdle
    /\ LoadIdle
    /\ d_jobs \in 1..MaxJobs
    /\ d_retries \in 1..MaxRetries
    /\ max_retries \in 1..MaxRetries
    /\ dm_pc = "submit"
    /\ d_pc = [k \in DlTasks |-> "unsubmitted"]
    /\ d_proc = [k \in DlTasks |-> 0]
    /\ download_lock = [p \in 1..d_jobs |-> FALSE]
    /\ d_i = [k \in DlTasks |-> 0]
    /\ attempt = [k \in DlTasks |-> 0]
    /\ fetched = [k \in DlTasks |-> <<>>]
    /\ waits = [k \in DlTasks |-> 0]

NextDl ==
    \/ DlSubmit
    \/ DlClose
    \/ \E p \in 1..MaxJobs : DlWorkerTake(p)
    \/ \E k \in DlTasks :
         \/ Acquire(k)
         \/ Fetch(k)
         \/ Sleep(k)
         \/ AfterDownload(k)
         \/ ExceptURLError(k)
         \/ ExceptOSError(k)
    \/ DlJoin

DlSpec == InitDl /\ [][NextDl]_vars

\* ---------------------------------------------------------------- type check
TypeOK ==
    /\ ntests \in 1..(NumTests + 1)
    /\ jobs \in 1..(MaxJobs + 1)
    /\ pool_state \in {"RUN", "CLOSE", "TERMINATE"}
    /\ main_pc \in {"submit", "join", "record", "done", "raised", "none", "suite"}
    /\ cb_pc \in {"idle", "terminating", "append", "stopped"}
    /\ \A j \in Tests :
          /\ pc[j] \in InTestRun \cup {"unsubmitted", "queued", "returned", "raised",
                                       "sent", "collected", "killed"}
          /\ result[j].encode_result \in EncodeTestResult
          /\ result[j].vmaf_result \in EncodeTestResult
    /\ num_results \in 0..(IF main_pc = "suite" THEN Len(assets) ELSE ntests)
    /\ s_pc \in {"none", "check_vmaf", "match_encoders", "generate_assets",
                  "loop", "run_engine", "done", "error"}
    /\ enc_i \in 1..(Len(encoders) + 1)
    /\ Len(output_dir) >= 1
    /\ load_cached \in BOOLEAN
    /\ Len(load_log) <= MaxCalls
    /\ Len(self_asset_lists) <= Len(asset_dir)
    /\ dm_pc \in {"none", "submit", "join", "finished", "exit"}
    /\ \A k \in DlTasks :
         /\ d_pc[k] \in {"unsubmitted", "queued", "try", "inside", "blocked", "sleep",
                         "returned", "URLError", "OSError", "done", "failed"}
         /\ d_proc[k] \in 0..d_jobs
         /\ d_i[k] \in 0..(d_retries - 1)
         /\ attempt[k] \in 0..(max_retries - 1)

\* ------------------------------------------------------------------ claims
Range(q) == {q[i] : i \in 1..Len(q)}

\* Test.run has been left by job j, by return or by an exception.
LeftTestRun(j) == pc[j] \in {"returned", "raised", "sent", "collected"}

\* A Result counts as a failure when one of its outcomes is not SUCCESS.
Failed(r) == r.encode_result # SUCCESS \/ r.vmaf_result # SUCCESS

\* C1: without fail_fast, _run_test_suite_in_parallel ends with exactly N
\* collected results, whatever the outcome of each job.
C1_ExactlyNResults ==
    (~fail_fast /\ main_pc = "done") => num_results = ntests

\* C2: a job whose Test.run raised still has its partial Result delivered:
\* once the run is over, the Result of every raised job has been printed and
\* appended to the collected results.
C2_RaisedResultCollected ==
    (~fail_fast /\ main_pc = "done") =>
        \A j \in Tests : pc[j] = "raised" =>
            /\ \E r \in Range(printed) : r.asset_fname = j
            /\ \E r \in Range(test_results) : r.asset_fname = j

\* C3: when encode raised TimeoutExpired, the Result has encode_result =
\* TIMEOUT when the exception leaves Test.run.
C3_TimeoutKept ==
    \A j \in Tests :
        (pc[j] = "raised" /\ enc_outcome[j] = "TimeoutExpired") =>
            result[j].encode_result = TIMEOUT

\* C4: when encode raised anything but TimeoutExpired, the Result has
\* encode_result = ERROR when the exception leaves Test.run.
C4_ErrorKept ==
    \A j \in Tests :
        (pc[j] = "raised" /\ enc_outcome[j] = "CalledProcessError") =>
            result[j].encode_result = ERROR

\* C5: the scorer is called only for a job whose encode call has returned,
\* and every Result (in a worker, in transit or collected) whose
\* encode_result is not SUCCESS has vmaf_result = NOT_RUN.
C5_ScoreOnlyAfterEncode ==
    /\ \A j \in Tests :
          /\ sc_outcome[j] # "none" => enc_outcome[j] = "ok"
          /\ pc[j] \in {"vmaf_except", "vmaf_finally"} => enc_outcome[j] = "ok"
          /\ result[j].encode_result # SUCCESS => result[j].vmaf_result = NOT_RUN
    /\ \A r \in Range(outqueue) \cup Range(test_results) :
          r.encode_result # SUCCESS => r.vmaf_result = NOT_RUN

\* C5 witness: one job sits between the except and the finally clause with
\* encode_result = TIMEOUT while the scorer has run for another job.
C5_Witness ==
    \E j, k \in Tests :
        /\ pc[j] = "enc_finally"
        /\ result[j].encode_result = TIMEOUT
        /\ result[j].vmaf_result = NOT_RUN
        /\ sc_outcome[k] = "ok"

\* C6: with keep_files = False the output file of a job does not exist once
\* Test.run has been left, on every exit path.
C6_NoOutputFileLeft ==
    \A j \in Tests : (~keep_files /\ LeftTestRun(j)) => ~file[j]

\* C7: after each of the successive runs of one Test, keep_files = False
\* leaves no output file, and keep_files = True leaves the file of a run that
\* returned normally.
C7_CleanupIdempotent ==
    pc[1] \in {"returned", "raised"} =>
        IF keep_files THEN (pc[1] = "returned" => file[1]) ELSE ~file[1]

\* C8: with fail_fast, pool.terminate() is called for every delivered Result
\* that is a failure and only for such a Result.
C8_TerminateOnlyOnFailure ==
    fail_fast =>
        /\ \A r \in trigger : Failed(r)
        /\ \A r \in Range(test_results) : Failed(r) => r \in trigger

\* C9: with fail_fast, N >= 2 and a failing job that fired the trigger, no
\* job starts after pool.terminate() was entered, every collected Result
\* belongs to a job that ran, and at most N results are collected.
C9_NoStartAfterTrigger ==
    (fail_fast /\ ntests >= 2 /\ \E r \in trigger : Failed(r)) =>
        /\ late_start = {}
        /\ \A r \in Range(test_results) : enc_outcome[r.asset_fname] # "none"
        /\ Len(test_results) <= ntests

\* C10: with fail_fast, _run_test_suite_in_parallel is never left by an
\* unhandled error, and when it returns self.time and self.num_results cover
\* every result collected.
C10_ReturnsAndRecords ==
    fail_fast =>
        /\ main_pc # "raised"
        /\ main_pc = "done" => (time_set /\ num_results = Len(test_results))

\* Jobs that are executing Test.run.
Executing == {j \in Tests : pc[j] \in InTestRun}

\* C11: at any time at most `jobs` jobs are executing Test.run.
C11_AtMostJobsConcurrent == Cardinality(Executing) <= jobs

\* C11 witness: every worker is executing a job while a submitted job waits.
C11_Witness ==
    /\ Cardinality(Executing) = jobs
    /\ inqueue # <<>>

\* s is an initial part of t.
IsPrefix(s, t) == Len(s) <= Len(t) /\ \A i \in 1..Len(s) : s[i] = t[i]

\* The jobs of a sequence of Results.
JobsOf(q) == [i \in 1..Len(q) |-> q[i].asset_fname]

HasSep(t) == \E i \in 1..Len(t) : t[i] = ":"

\* The characters after the first separator, up to the next one or the end.
FieldAfterFirstSep(t) ==
    LET k    == CHOOSE i \in 1..Len(t) : t[i] = ":" /\ \A m \in 1..(i-1) : t[m] # ":"
        rest == SubSeq(t, k + 1, Len(t))
        stop == IF \E i \in 1..Len(rest) : rest[i] = ":"
                THEN (CHOOSE i \in 1..Len(rest) :
                          rest[i] = ":" /\ \A m \in 1..(i-1) : rest[m] # ":") - 1
                ELSE Len(rest)
    IN  SubSeq(rest, 1, stop)

\* The field is a number: one digit or more, nothing else.
IsDigits(f) == Len(f) > 0 /\ Range(f) \subseteq {"7"}

\* The number a field of n digits "7" denotes.
NumberValue(f) == 7 * ((10 ^ Len(f) - 1) \div 9)

\* C13: when the scorer call returned a text, Test.run does not raise; the
\* job has vmaf_result = SUCCESS and the number as vmaf_score when the field
\* after the first ':' is a number, and vmaf_result = FAIL with vmaf_score
\* 0.0 otherwise.
C13_ScoreParsing ==
    \A j \in Tests :
        (ScorerReturns(sc_outcome[j]) /\ pc[j] # "vmaf_finally") =>
            LET t == output[j].text IN
              /\ pc[j] # "raised"
              /\ IF HasSep(t) /\ IsDigits(FieldAfterFirstSep(t))
                 THEN /\ result[j].vmaf_result = SUCCESS
                      /\ result[j].vmaf_score = NumberValue(FieldAfterFirstSep(t))
                 ELSE /\ result[j].vmaf_result = FAIL
                      /\ result[j].vmaf_score = 0

\* C13 witness: Test.run has returned for a text with a second separator
\* after the number.
C13_Witness ==
    \E j \in Tests :
        /\ pc[j] = "returned"
        /\ output[j].text = <<"a", ":", "7", ":", "a">>
        /\ result[j].vmaf_result = SUCCESS
        /\ result[j].vmaf_score = 7

\* C14: when the scorer subprocess could not be started or exited with a
\* non-zero status, the job ends with vmaf_result = ERROR, encode_result =
\* SUCCESS and an exception leaving Test.run.
C14_ScorerFailureIsError ==
    \A j \in Tests :
        (sc_outcome[j] \in {"nonzero", "OSError"}
            /\ pc[j] \in {"cleanup", "returned", "raised"}) =>
            /\ result[j].vmaf_result = ERROR
            /\ result[j].encode_result = SUCCESS
            /\ pc[j] = "raised"

\* C15: a scorer call that does not return by itself is cut off by the
\* timeout: the job leaves the call and the suite run is eventually left.
C15_ScorerBounded ==
    \A j \in 1..NumTests :
        (j \in Tests /\ pc[j] = "score_hung") ~>
            (j \in Tests /\ pc[j] # "score_hung" /\ main_pc \in {"done", "raised"})


\* TestSuite.run is about to be called with an encoder whose check fails.
AtUnavailableEncoder ==
    /\ s_pc = "loop"
    /\ enc_i <= Len(encoders)
    /\ encoders[enc_i].name \notin env.avail

\* C16: TestSuite.run with an unavailable encoder runs no job, collects no
\* result, deletes and creates no directory or file, leaves params.output_dir,
\* time and num_results as they were, and run_test_suites goes on with the
\* next encoder instead of failing.
C16_SkipTouchesNothing ==
    [][AtUnavailableEncoder =>
          /\ ran' = ran
          /\ tests' = tests
          /\ dirs' = dirs
          /\ files' = files
          /\ output_dir' = output_dir
          /\ time_set' = time_set
          /\ num_results' = num_results
          /\ s_pc' = "loop"
          /\ enc_i' = enc_i + 1]_vars

\* The second encoder was skipped and the third one then ran its tests.
C16_Witness ==
    /\ skipped = {ENCODERS[2].name}
    /\ Len(ran) = 2
    /\ ran[2].encoder = ENCODERS[3].name
    /\ s_pc = "done"


\* The per-suite directory <output_dir>/<suite name> of the run command.
SuiteDir == <<"out", suite_name>>

\* C17: at every TestSuite.run of the same suite, when the jobs start, the
\* directory they write into is the per-suite directory
\* <output_dir>/<suite name>, just deleted and recreated, so that no output
\* file of an earlier run is in it.
C17_SameSuiteDirReset ==
    s_pc = "run_engine" =>
        /\ output_dir = SuiteDir
        /\ \A t \in Range(tests) : t.output_dir = SuiteDir
        /\ \A f \in files : ~IsUnder(f.dir, SuiteDir)


\* C18: within one suite run the output paths of distinct jobs are pairwise
\* distinct, for every asset set that _generate_assets can produce.
C18_OutputPathsDistinct ==
    s_pc = "run_engine" =>
        \A i, k \in 1..Len(tests) :
            i # k => OutputPath(tests[i]) # OutputPath(tests[k])


\* The scorer binary is not found.
NoScorer == ~env.vmaf_found

\* Encoder names were given and one of them is no encoder of the catalog.
NoEncoderMatches ==
    \E i \in 1..Len(params.encoders_names) :
        \A k \in 1..Len(ENCODERS) :
            Lower[params.encoders_names[i]] # Lower[ENCODERS[k].name]

\* The asset lists the run command selects.
SelectedLists ==
    {l \in Range(AssetLists) :
        \/ params.asset_lists_names = <<>>
        \/ \E n \in Range(params.asset_lists_names) : Lower[n] = Lower[l.name]}

\* No asset of the selected lists passes the two name filters.
NoAssetLeft ==
    \A l \in SelectedLists : \A a \in Range(l.assets) :
        \/ (params.assets_names # <<>> /\ a \notin Range(params.assets_names))
        \/ (params.skip_assets_names # <<>> /\ a \in Range(params.skip_assets_names))

\* C19: when the scorer binary is not found, no encoder matches or the
\* filtered asset set is empty, run_test_suites never gets past its checks
\* other than by the error: no test is generated, no job runs, and the
\* directories and files are those found at the start.
C19_ConfigErrorAbortsFirst ==
    (NoScorer \/ NoEncoderMatches \/ NoAssetLeft) =>
        /\ s_pc \in {"check_vmaf", "match_encoders", "generate_assets", "error"}
        /\ tests = <<>>
        /\ ran = <<>>
        /\ output_dir = <<"out">>
        /\ dirs = (IF env.stale THEN StaleDirs ELSE {})
        /\ files = (IF env.stale THEN StaleFiles ELSE {})

\* The run aborted on the empty asset set, after the scorer and the encoders
\* were found, with directories of earlier runs on disk.
C19_Witness ==
    /\ s_pc = "error"
    /\ ~NoScorer
    /\ encoders # <<>>
    /\ NoAssetLeft
    /\ env.stale
    /\ dirs = StaleDirs


\* C20: the tests of a run are one Test per asset of the asset set, in the
\* order of the asset set, each bound to the encoder the run was called with.
C20_OneTestPerAsset ==
    s_pc = "run_engine" =>
        /\ Len(tests) = Len(assets)
        /\ \A i \in 1..Len(tests) :
              /\ tests[i].asset = assets[i]
              /\ tests[i].encoder = encoders[enc_i].name

\* The run of the second encoder has generated its tests, for several assets.
C20_Witness ==
    /\ s_pc = "run_engine"
    /\ enc_i = 2
    /\ Len(tests) >= 2
    /\ tests[1].asset # tests[2].asset


\* C21: no job retries a failed step: in one run encode is invoked at most
\* once per job and the scorer at most once per job, whatever the outcome.
C21_NoRetry ==
    \A j \in Tests : calls[j].encode <= 1 /\ calls[j].scorer <= 1

\* The run is over; one job's encode raised and one job's scorer call failed,
\* and each of the two calls was made once.
C21_Witness ==
    /\ main_pc = "done"
    /\ \E j, k \in Tests :
          /\ enc_outcome[j] \in {"TimeoutExpired", "CalledProcessError"}
          /\ pc[j] = "raised"
          /\ calls[j] = [encode |-> 1, scorer |-> 0]
          /\ sc_outcome[k] = "OSError"
          /\ pc[k] = "raised"
          /\ calls[k] = [encode |-> 1, scorer |-> 1]


\* The text is of the first shape: 'Encode <outcome>'.
ShownEncode == Len(shown) = 6 /\ shown[5] = "Encode"

\* The text is of the second shape: 'VMAF <outcome>'.
ShownVmaf == Len(shown) = 6 /\ shown[5] = "VMAF"

\* The text is of the third shape: the total time and the score.
ShownScore == Len(shown) = 8 /\ shown[4] = "["

\* C22: str(Result) has exactly one of three shapes, chosen by precedence:
\* 'Encode <outcome>' when encode_result is not SUCCESS, whatever
\* vmaf_result is; otherwise 'VMAF <outcome>' when vmaf_result is not
\* SUCCESS; otherwise the total time encode_time + vmaf_time and the score.
\* A score is rendered only when both outcomes are SUCCESS.
C22_StrShapes ==
    shown # <<>> =>
        /\ res.encode_result # SUCCESS =>
              ShownEncode /\ shown[6] = res.encode_result
        /\ (res.encode_result = SUCCESS /\ res.vmaf_result # SUCCESS) =>
              ShownVmaf /\ shown[6] = res.vmaf_result
        /\ (res.encode_result = SUCCESS /\ res.vmaf_result = SUCCESS) =>
              /\ ShownScore
              /\ shown[5] = ToString(res.encode_time + res.vmaf_time)
              /\ shown[8] = ToString(res.vmaf_score)
        /\ ShownScore => (res.encode_result = SUCCESS /\ res.vmaf_result = SUCCESS)

\* A Result whose two outcomes both are failures was rendered as the
\* encode failure.
C22_Witness ==
    /\ res.encode_result = TIMEOUT
    /\ res.vmaf_result = FAIL
    /\ ShownEncode
    /\ shown[6] = TIMEOUT


\* C23: over any sequence of check calls on one encoder instance the probe
\* runs at most once, and every call returns what the first call returned.
C23_CheckProbedOnce ==
    /\ \A e \in Probed : probes[e] <= 1
    /\ \A i, k \in 1..Len(check_log) :
          check_log[i].enc = check_log[k].enc =>
              check_log[i].value = check_log[k].value


\* The list holds one instance of each registered class and of no other.
OnePerClass ==
    /\ Len(registry) = Cardinality(registered)
    /\ \A c \in registered : \E i \in 1..Len(registry) : registry[i].cls = c

\* The list is in the order of encoder_name.
SortedByName ==
    \A i, k \in 1..Len(registry) :
        i < k => NameRank[registry[i].name] <= NameRank[registry[k].name]

\* C24: after any sequence of register_encoder calls ENCODERS holds one
\* instance per registered class and is sorted by encoder_name, and no
\* operation of a run adds, removes or reorders its entries.
C24_RegistrySortedAndFrozen ==
    /\ [](OnePerClass /\ SortedByName)
    /\ [][r_pc = "run" => registry' = registry]_vars

\* Three classes were registered with the names in descending order, and the
\* run has read them back in ascending order.
C24_Witness ==
    /\ r_pc = "run"
    /\ registered = {1, 2, 3}
    /\ cls_name[1] = "Vkvs" /\ cls_name[2] = "Gst" /\ cls_name[3] = "Dummy"
    /\ listed = <<"Dummy", "Gst", "Vkvs">>


\* C25: with --quiet the per-test result lines are not printed; without it
\* every collected result is printed.
C25_QuietPrintsNoResult ==
    /\ quiet => printed = <<>>
    /\ ~quiet => \A r \in Range(test_results) : r \in Range(printed)


\* C26: given --threshold T, the exit code of a run is 2 when fewer than T
\* tests ended in success and 0 otherwise.
C26_ThresholdExitCode ==
    (c_pc = "exited" /\ outcome = "return"
        /\ args.threshold # <<>> /\ args.time_threshold = <<>>) =>
        exit_code = IF successes < args.threshold[1] THEN 2 ELSE 0

\* C27: given --time-threshold S, the exit code of a run is 3 when the asset
\* lists took longer than S seconds and 0 otherwise.
C27_TimeThresholdExitCode ==
    (c_pc = "exited" /\ outcome = "return"
        /\ args.time_threshold # <<>> /\ args.threshold = <<>>) =>
        exit_code = IF elapsed > args.time_threshold[1] THEN 3 ELSE 0

\* C28: the worker count handed to the engine is at least 1: the value given
\* to --jobs when it is positive, the logical core count otherwise.
C28_JobsAtLeastOne ==
    c_pc \in {"run_test_suites", "after_call", "exited"} =>
        /\ run_params.jobs >= 1
        /\ args.jobs > 0 => run_params.jobs = args.jobs
        /\ args.jobs <= 0 => run_params.jobs = cpu_count

\* --jobs 0 on a machine with several cores: the engine got the core count.
C28_Witness ==
    /\ c_pc = "run_test_suites"
    /\ args.jobs = 0
    /\ cpu_count = MaxJobs
    /\ run_params.jobs = MaxJobs


\* Jobs handed to the pool by apply_async whose Test.run has not ended yet.
SubmittedUnfinished == {j \in Tests : pc[j] \in {"queued"} \cup InTestRun}

\* C29: the submission loop blocks while all worker slots are busy: the
\* number of jobs submitted to the pool and not yet finished never exceeds
\* the worker count.
C29_SubmissionBounded ==
    Cardinality(SubmittedUnfinished) <= jobs


\* Some scorer call never returns.
ScorerHung == \E j \in Tests : pc[j] = "score_hung"

\* C30: without fail_fast, when self.time and self.num_results are recorded
\* every submitted job has finished, by return or by exception, and the run
\* always gets there provided every encode and scorer call terminates: every
\* step of the run moves a thread or a job forward, so the run is finite, and
\* it can only stop once the results are recorded unless a scorer call hangs.
C30_ReturnsAfterAllJobs ==
    ~fail_fast =>
        /\ main_pc \in {"record", "done"} =>
              \A j \in Tests : pc[j] \in {"raised", "collected"}
        /\ ~(ENABLED Next) => (main_pc = "done" \/ ScorerHung)

\* A run without fail_fast is over; one of its jobs returned and one raised.
C30_Witness ==
    /\ ~fail_fast
    /\ main_pc = "done"
    /\ time_set
    /\ \E j, k \in Tests : pc[j] = "collected" /\ pc[k] = "raised"


\* C31: without fail_fast, at the end of the run the collected results are
\* the Results of the jobs whose Test.run returned, each once: num_results is
\* the number of these jobs, a job that raised has no result, and every other
\* job has run and been collected.
C31_CollectedAreReturned ==
    (~fail_fast /\ main_pc = "done") =>
        /\ num_results = Len(completed)
        /\ Len(test_results) = Len(completed)
        /\ {r.asset_fname : r \in Range(test_results)} = Range(completed)
        /\ \A j \in Tests :
              /\ pc[j] \in {"raised", "collected"}
              /\ pc[j] = "raised" => j \notin Range(completed)
              /\ pc[j] = "collected" =>
                    Cardinality({i \in 1..Len(test_results) :
                                    test_results[i].asset_fname = j}) = 1

\* The first job raised in its encode call, the second, submitted after it,
\* was collected all the same.
C31_Witness ==
    /\ ~fail_fast
    /\ main_pc = "done"
    /\ ntests = 2
    /\ pc[1] = "raised" /\ enc_outcome[1] = "CalledProcessError"
    /\ pc[2] = "collected"
    /\ num_results = 1


\* The Results that have reached _callback or wait for it in the result queue.
Delivered ==
    Range(outqueue) \cup Range(printed) \cup Range(test_results)
        \cup (IF cb_pc \in {"terminating", "append"} THEN {cb_result} ELSE {})

\* C32: every Result that reaches the completion callback has encode_result
\* SUCCESS and vmaf_result SUCCESS or FAIL, so that no printed line has the
\* shape 'Encode <outcome>' or shows 'VMAF Error'.
C32_DeliveredResults ==
    \A r \in Delivered :
        /\ r.encode_result = SUCCESS
        /\ r.vmaf_result \in {SUCCESS, FAIL}
        /\ Str(r)[5] # "Encode"
        /\ ~(Str(r)[5] = "VMAF" /\ Str(r)[6] = ERROR)

\* A Result with a failed score and one with a parsed score were printed.
C32_Witness ==
    /\ \E r \in Range(printed) : r.vmaf_result = FAIL /\ Str(r)[5] = "VMAF"
    /\ \E r \in Range(printed) : r.vmaf_result = SUCCESS /\ r.vmaf_score = 7


C34_MatchesFromList ==
    (env.vmaf_found /\ s_pc \notin {"check_vmaf", "match_encoders"}) =>
        IF NoEncoderMatches
        THEN s_pc = "error" /\ encoders = <<>>
        ELSE encoders =
                IF params.encoders_names = <<>>
                THEN ENCODERS
                ELSE SelectSeq(ENCODERS, LAMBDA c :
                        \E n \in Range(params.encoders_names) :
                            Lower[n] = Lower[c.name])


\* The position of an asset list in the catalog, and of an asset in its list.
ListIndex(n) == CHOOSE k \in 1..Len(AssetLists) : AssetLists[k].name = n

AssetIndex(n, a) ==
    CHOOSE k \in 1..Len(AssetLists[ListIndex(n)].assets) :
        AssetLists[ListIndex(n)].assets[k] = a

\* The (asset list, asset) pairs the parameters ask for.
WantedAssets ==
    {p \in [list : {"L1", "L2"}, name : {"x", "y", "z"}] :
        /\ \E l \in SelectedLists : l.name = p.list /\ p.name \in Range(l.assets)
        /\ params.assets_names # <<>> => p.name \in Range(params.assets_names)
        /\ params.skip_assets_names # <<>> => p.name \notin Range(params.skip_assets_names)}

\* C35: _generate_assets returns exactly the (asset list, asset) pairs of the
\* matched asset lists whose asset name is among assets_names when these are
\* given and not among skip_assets_names when these are given, each once, in
\* the order of the asset lists; an asset named in both is left out; when
\* nothing is left it raises and returns nothing.
C35_GenerateAssetsFilters ==
    /\ s_pc \notin {"check_vmaf", "match_encoders", "generate_assets", "error"} =>
            /\ assets # <<>>
            /\ Range(assets) = WantedAssets
            /\ \A i, k \in 1..Len(assets) : i < k =>
                    \/ ListIndex(assets[i].list) < ListIndex(assets[k].list)
                    \/ /\ assets[i].list = assets[k].list
                       /\ AssetIndex(assets[i].list, assets[i].name)
                              < AssetIndex(assets[k].list, assets[k].name)
    /\ (s_pc \notin {"check_vmaf", "match_encoders", "generate_assets"} /\ NoAssetLeft) =>
            s_pc = "error" /\ assets = <<>>

C35_Witness ==
    /\ s_pc = "done"
    /\ params.assets_names = <<"x", "y">>
    /\ params.skip_assets_names = <<"y">>
    /\ params.asset_lists_names = <<>>
    /\ assets = << [list |-> "L1", name |-> "x"] >>


\* C36: whatever calls of download_assets, run_test_suites and
\* list_asset_lists were made on a Soothe object, also calls that ended in
\* an error, the names of the asset lists in self.asset_lists are pairwise
\* distinct and no file has been appended twice.
C36_AssetListsDistinct ==
    \A i, k \in 1..Len(self_asset_lists) : i # k =>
        /\ self_asset_lists[i].name # self_asset_lists[k].name
        /\ self_asset_lists[i].file # self_asset_lists[k].file

C36_Witness ==
    /\ Len(load_log) >= 2
    /\ load_log[1] = "error"
    /\ asset_dir = <<"L1", "L2", "L1">>
    /\ Len(self_asset_lists) = 2


\* The attempts of the current call of download: no more than max_retries,
\* none after one that succeeded, a sleep after each failed one but the
\* last, and URLError raised only when max_retries attempts in a row failed.
RetryDiscipline ==
    \A k \in DlTasks :
        /\ Len(fetched[k]) <= max_retries
        /\ \A n \in 1..Len(fetched[k]) :
              fetched[k][n] \in {"ok", "OSError"} =>
                  /\ n = Len(fetched[k])
                  /\ d_pc[k] \notin {"try", "inside", "sleep", "blocked", "URLError"}
        /\ d_pc[k] \in {"try", "inside", "blocked"} => waits[k] = Len(fetched[k])
        /\ d_pc[k] = "sleep" => waits[k] = Len(fetched[k]) - 1
        /\ d_pc[k] = "returned" =>
              /\ fetched[k][Len(fetched[k])] = "ok"
              /\ waits[k] = Len(fetched[k]) - 1
        /\ d_pc[k] = "URLError" =>
              /\ Len(fetched[k]) = max_retries
              /\ \A n \in 1..max_retries : fetched[k][n] = "URLError"
              /\ waits[k] = max_retries - 1

\* C37: download with max_retries = R >= 1 makes at most R attempts, stops
\* at the first that succeeds, waits between failed attempts, raises
\* URLError only after the R-th failure in a row, and always terminates:
\* no call is left unfinished when nothing more can happen.
C37_DownloadRetries ==
    /\ RetryDiscipline
    /\ ~(ENABLED NextDl) => \A k \in DlTasks : ~DlActive(k)

\* C38: while AssetList.download runs its workers in a pool of several jobs,
\* at most one worker at a time is inside the section download_lock guards.
C38_DownloadsExclusive ==
    Cardinality({k \in DlTasks : d_pc[k] \in {"inside", "blocked"}}) <= 1

====
